---- MODULE Spec2Model ----
(***************************************************************************)
(* A model of the Narwhalyzer runtime (src/src/narwhalyzer.c): the section *)
(* registry, the thread-local context stacks and the lock-free statistics. *)
(*                                                                         *)
(* Every API function is cut into steps at its accesses to shared memory:  *)
(* a step holds at most one access to a location another thread may touch  *)
(* at the same time, together with the thread-local work around it.  The   *)
(* statements register_section executes while it holds the registration    *)
(* mutex touch data that only the holder of the mutex writes, except       *)
(* g_section_count, which section_enter loads; the fetch_add and the       *)
(* fetch_sub on it are therefore different steps.                          *)
(*                                                                         *)
(* Twelve specifications share the steps:                                  *)
(*   Spec     the process after the constructor __narwhalyzer_init has     *)
(*            run, threads running concurrently, every step interleaved,   *)
(*            each thread using the API as instrumented code does          *)
(*            (indices that register_section returned, exits of the        *)
(*            context on top of its stack), on two call sites;             *)
(*   SpecExit the same on one call site, with a finer clock;               *)
(*   SpecReg  the same process, threads only registering, any triple;      *)
(*   SpecSeq  the process from its static initial state, one thread        *)
(*            calling the API with arbitrary arguments;                    *)
(*   SpecInit the process from its static initial state, threads calling   *)
(*            __narwhalyzer_init and registering concurrently;             *)
(*   SpecGuard one thread using scope guards and their cleanup hook;       *)
(*   SpecReport the process at exit, on every section table of a bounded   *)
(*            set, threads calling the finalizer __narwhalyzer_fini;       *)
(*   SpecLife one thread calling initializer, finalizer and instrumented   *)
(*            code in any order, from the static initial state;            *)
(*   SpecMacro one thread executing a NARWHALYZER_SECTION block;           *)
(*   SpecExitFair, SpecRegFair, SpecReportFair: SpecExit, SpecReg and      *)
(*            SpecReport under a weakly fair scheduler.                    *)
(***************************************************************************)
EXTENDS Integers, Sequences, FiniteSets, TLC

(* ------------------------------------------------------------------ *)
(* Bounds of the model                                                 *)
(* ------------------------------------------------------------------ *)

\* Capacity of g_sections (NARWHALYZER_MAX_SECTIONS, 1024 by default), scaled down.
NARWHALYZER_MAX_SECTIONS == 2

\* Capacity of a thread's context stack (NARWHALYZER_MAX_NESTING_DEPTH, 64 by default), scaled down.
NARWHALYZER_MAX_NESTING_DEPTH == 2

\* Number of threads.
NumThreads == 2

\* Largest value the monotonic clock reaches in Spec.
MaxTime == 1

\* Contexts a thread pushes in Spec.
MaxEnters == 2

\* Largest value the monotonic clock reaches in SpecExit.
MaxTimeExit == 2

\* Contexts a thread pushes in SpecExit.
MaxEntersExit == 2

\* Largest value the monotonic clock reaches in SpecSeq.
MaxTimeSeq == 1

\* Contexts the caller pushes in SpecSeq.
MaxEntersSeq == 3

\* Durations measured by section_exit calls with arbitrary arguments (SpecSeq).
MaxExits == 2

\* Largest timestamp of SpecInit.
MaxTimeInit == 1

\* Largest timestamp of SpecReport.
MaxTimeReport == 1

\* Largest value the monotonic clock reaches in SpecLife.
MaxTimeLife == 1

\* Largest value the monotonic clock reaches in SpecMacro.
MaxTimeMacro == 1

\* Executions of the block in SpecMacro.
MaxBlocks == 2

\* Runs of the body within one execution of the block in SpecMacro.
MaxBodyRuns == 3

\* Contexts the caller pushes in SpecLife.
MaxEntersLife == 2

\* Largest entry_count of a section in the tables of SpecReport.
MaxEntriesReport == 2

\* Scope guards (narwhalyzer_scope_guard_t objects) a thread owns, in SpecGuard.
MaxGuards == 2

\* Contexts the thread pushes in SpecGuard.
MaxEntersGuard == 2

\* Durations section_exit measures in SpecGuard.
MaxExitsGuard == 2

\* Last clock value in SpecGuard.
MaxTimeGuard == 1

\* The largest value of the type of min_time_ns (the checker's integers are
\* 32 bits wide; the code only needs it to exceed every duration).
UINT64_MAX == 2147483647

Threads == 1..NumThreads
SectionIndices == 0..(NARWHALYZER_MAX_SECTIONS - 1)
ContextIndices == 0..(NARWHALYZER_MAX_NESTING_DEPTH - 1)
\* The durations section_exit can measure: up to the largest clock value.
Durations == 0..(IF MaxTime >= MaxTimeExit /\ MaxTime >= MaxTimeSeq THEN MaxTime
                 ELSE IF MaxTimeExit >= MaxTimeSeq THEN MaxTimeExit ELSE MaxTimeSeq)

\* The thread that makes the calls of SpecSeq.
SeqThreads == { 1 }

NULL == "NULL"

\* The (name, file, line) triples call sites register: the first one, one that
\* differs from it in each single component, and one without a file.
Triples ==
    { <<"a", "f", 1>>, <<"b", "f", 1>>, <<"a", "g", 1>>, <<"a", "f", 2>>,
      <<"a", NULL, 1>> }

\* The triples the threads of Spec register.
HotTriples == { <<"a", "f", 1>>, <<"b", "f", 1>> }

\* The triple the threads of SpecExit register.
ExitTriples == { <<"a", "f", 1>> }

\* The triples the caller of SpecSeq registers.
SeqTriples == { <<"a", "f", 1>>, <<"b", "f", 1>>, <<"a", NULL, 1>> }

VARIABLES
    g_sections,               \* narwhalyzer_section_stats_t g_sections[]
    g_section_count,          \* atomic_int g_section_count
    g_context_stack,          \* __thread narwhalyzer_context_t g_context_stack[]
    g_context_stack_top,      \* __thread int g_context_stack_top
    g_initialized,            \* atomic_int g_initialized
    g_program_start_time_ns,  \* uint64_t g_program_start_time_ns
    g_registration_mutex,     \* 0 when free, else the thread holding it
    atexit_hooks,             \* number of atexit(__narwhalyzer_fini) registrations
    now,                      \* last value CLOCK_MONOTONIC_RAW returned
    pc,                       \* each thread's position
    frame,                    \* each thread's arguments and locals
    measured,                 \* history: per section, the bag of durations section_exit computed
    entered,                  \* history: per thread and section, section_enter calls that pushed
    returned,                 \* history: per triple, the values register_section returned
    g_report_printed,         \* atomic_int g_report_printed
    g_program_end_time_ns,    \* uint64_t g_program_end_time_ns
    output,                   \* the lines written to stdout, in order
    guards,                   \* each thread's narwhalyzer_scope_guard_t objects
    guard_exits,              \* history: per guard, the context ids the cleanup hook
                              \* passed to section_exit since the guard was initialised
    block                     \* the NARWHALYZER_SECTION block of the call site: its
                              \* position, its loop variables and the calls it made

vars == << g_sections, g_section_count, g_context_stack, g_context_stack_top,
           g_initialized, g_program_start_time_ns, g_registration_mutex,
           atexit_hooks, now, pc, frame, measured, entered, returned,
           g_report_printed, g_program_end_time_ns, output, guards, guard_exits,
           block >>

shared == << g_sections, g_section_count, g_initialized, g_program_start_time_ns,
             g_registration_mutex, atexit_hooks >>
stacks == << g_context_stack, g_context_stack_top >>
history == << measured, entered, returned >>
report == << g_report_printed, g_program_end_time_ns, output >>
scope == << guards, guard_exits, block >>

(* ------------------------------------------------------------------ *)
(* Data                                                                *)
(* ------------------------------------------------------------------ *)

\* A zeroed narwhalyzer_section_stats_t (static storage, memset).  The field
\* depth is left out: register_section and section_enter store to it and
\* nothing reads it.
ZeroSection ==
    [ name |-> NULL, file |-> NULL, line |-> 0, entry_count |-> 0,
      cumulative_time_ns |-> 0, min_time_ns |-> 0, max_time_ns |-> 0,
      parent_index |-> 0 ]

\* A zeroed narwhalyzer_context_t (thread-local static storage).
ZeroContext == [ section_index |-> 0, start_time_ns |-> 0, parent_context_index |-> 0 ]

\* The scope guards of a thread, and the null guard pointer.
GuardIds == 1..MaxGuards
NoGuard == 0

\* A narwhalyzer_scope_guard_t in zeroed memory.
ZeroGuard == [ context_index |-> 0, valid |-> 0 ]

\* The NARWHALYZER_SECTION block before its first execution: the static
\* _nw_idx_ holds its initialiser -1, the automatic _nw_once_ and _nw_ctx_ do
\* not exist yet; runs and trace are history (executions begun, and the
\* section_enter results, body runs and section_exit arguments of the
\* execution under way).
NoBlock ==
    [ pos |-> "out", once |-> 0, idx |-> -1, ctx |-> -1, runs |-> 0, trace |-> << >> ]

\* No scope guard has been initialised and no block has been executed.
InitScope ==
    /\ guards = [t \in Threads |-> [g \in GuardIds |-> ZeroGuard]]
    /\ guard_exits = [t \in Threads |-> [g \in GuardIds |-> << >>]]
    /\ block = NoBlock

\* The arguments and locals of a thread that is in no call.
NoFrame ==
    [ name |-> NULL, file |-> NULL, line |-> 0, section_index |-> -1,
      context_index |-> -1, ctx_idx |-> -1, idx |-> -1, elapsed_ns |-> 0,
      old |-> 0, after |-> "idle", ret |-> -1,
      total_time_ns |-> 0, section_count |-> 0, guard |-> NoGuard ]

RECURSIVE SumOver(_, _)
\* The sum of f[x] over the finite set S.
SumOver(f, S) ==
    IF S = {} THEN 0
    ELSE LET x == CHOOSE y \in S : TRUE IN f[x] + SumOver(f, S \ {x})

\* The values __narwhalyzer_get_timestamp_ns may return next while the clock is
\* at most horizon: CLOCK_MONOTONIC_RAW never goes back.
Timestamps(horizon) == now..horizon

(* ------------------------------------------------------------------ *)
(* The static initial state, and the state after the constructor       *)
(* ------------------------------------------------------------------ *)

InitStatic ==
    /\ g_sections = [i \in SectionIndices |-> ZeroSection]
    /\ g_section_count = 0
    /\ g_context_stack = [t \in Threads |-> [c \in ContextIndices |-> ZeroContext]]
    /\ g_context_stack_top = [t \in Threads |-> -1]
    /\ g_initialized = 0
    /\ g_program_start_time_ns = 0
    /\ g_registration_mutex = 0
    /\ atexit_hooks = 0
    /\ now = 0
    /\ pc = [t \in Threads |-> "idle"]
    /\ frame = [t \in Threads |-> NoFrame]
    /\ measured = [i \in SectionIndices |-> [d \in Durations |-> 0]]
    /\ entered = [t \in Threads |-> [i \in SectionIndices |-> 0]]
    /\ returned = [tr \in Triples |-> {}]
    /\ g_report_printed = 0
    /\ g_program_end_time_ns = 0
    /\ output = << >>
    /\ InitScope


(* ------------------------------------------------------------------ *)
(* Steps common to the calls                                           *)
(* ------------------------------------------------------------------ *)

\* A compare-and-swap that stores without comparing.
CasSucceeds_blind(current, expected) == TRUE

\* A compare-and-swap (atomic_compare_exchange_strong, __atomic_compare_exchange_n)
\* succeeds when the location holds the expected value.
CasSucceeds(current, expected) == current = expected

\* Thread t moves to position p with frame f.
Goto(t, p, f) ==
    /\ pc' = [pc EXCEPT ![t] = p]
    /\ frame' = [frame EXCEPT ![t] = f]

\* Thread t returns value r to its caller (position p hands r over).
ReturnValue(t, p, r) == Goto(t, p, [frame[t] EXCEPT !.ret = r])

(* ------------------------------------------------------------------ *)
(* __narwhalyzer_init                                                  *)
(* ------------------------------------------------------------------ *)

\* A call of __narwhalyzer_init by the program (it is also the constructor).
CallInit(t) ==
    /\ pc[t] = "idle"
    /\ Goto(t, "init_cas", [NoFrame EXCEPT !.after = "idle"])
    /\ UNCHANGED << shared, stacks, now, history >>
    /\ UNCHANGED << report, scope >>

\* atomic_compare_exchange_strong(&g_initialized, &expected, 1)
init_cas(t) ==
    /\ pc[t] = "init_cas"
    /\ IF CasSucceeds(g_initialized, 0)
       THEN /\ g_initialized' = 1
            /\ Goto(t, "init_time", frame[t])
       ELSE /\ g_initialized' = g_initialized
            /\ Goto(t, frame[t].after, [frame[t] EXCEPT !.after = "idle"])
    /\ UNCHANGED << g_sections, g_section_count, g_program_start_time_ns,
                    g_registration_mutex, atexit_hooks, stacks, now, history >>
    /\ UNCHANGED << report, scope >>

\* g_program_start_time_ns = __narwhalyzer_get_timestamp_ns()
init_time(t, ts) ==
    /\ pc[t] = "init_time"
    /\ now' = ts
    /\ g_program_start_time_ns' = ts
    /\ Goto(t, "init_memset", frame[t])
    /\ UNCHANGED << g_sections, g_section_count, g_initialized,
                    g_registration_mutex, atexit_hooks, stacks, history >>
    /\ UNCHANGED << report, scope >>

\* memset(g_sections, 0, sizeof(g_sections)); atexit(__narwhalyzer_fini)
init_memset(t) ==
    /\ pc[t] = "init_memset"
    /\ g_sections' = [i \in SectionIndices |-> ZeroSection]
    /\ atexit_hooks' = atexit_hooks + 1
    /\ Goto(t, frame[t].after, [frame[t] EXCEPT !.after = "idle"])
    /\ UNCHANGED << g_section_count, g_initialized, g_program_start_time_ns,
                    g_registration_mutex, stacks, now, history >>
    /\ UNCHANGED << report, scope >>

(* ------------------------------------------------------------------ *)
(* __narwhalyzer_register_section                                      *)
(* ------------------------------------------------------------------ *)

\* A lookup test that does not compare the file names.
SectionMatches_nofile(s, name, file, line) ==
    /\ s.line = line
    /\ s.file # NULL /\ file # NULL
    /\ s.name = name

\* The test of the lookup loop: same line, both files present and equal, same name.
SectionMatches(s, name, file, line) ==
    /\ s.line = line
    /\ s.file # NULL /\ file # NULL
    /\ s.file = file
    /\ s.name = name

\* A lookup loop that stops one slot early.
LookupSection_short(count, name, file, line) ==
    LET hits == { i \in 0..(count - 2) : SectionMatches(g_sections[i], name, file, line) }
    IN  IF hits = {} THEN -1 ELSE CHOOSE i \in hits : \A j \in hits : i <= j

\* The lookup loop: the first index below count whose section matches, or -1.
LookupSection(count, name, file, line) ==
    LET hits == { i \in 0..(count - 1) : SectionMatches(g_sections[i], name, file, line) }
    IN  IF hits = {} THEN -1 ELSE CHOOSE i \in hits : \A j \in hits : i <= j

\* The section register_section writes into a new slot.
NewSection(name, file, line) ==
    [ name |-> name, file |-> file, line |-> line, entry_count |-> 0,
      cumulative_time_ns |-> 0, min_time_ns |-> UINT64_MAX, max_time_ns |-> 0,
      parent_index |-> -1 ]

\* An overflow branch that keeps the reserved slot counted.
UndoReservation_forgotten(count) == count

\* The value atomic_fetch_sub(&g_section_count, 1) stores: the reservation undone.
UndoReservation(count) == count - 1

\* A return path that leaves the mutex with its holder.
pthread_mutex_unlock_forgotten(holder) == holder

\* pthread_mutex_unlock(&g_registration_mutex): the mutex is free again.
pthread_mutex_unlock(holder) == 0

\* A call of __narwhalyzer_register_section(name, file, line).
CallRegister(t, tr) ==
    /\ pc[t] = "idle"
    /\ Goto(t, "reg_check_init",
            [NoFrame EXCEPT !.name = tr[1], !.file = tr[2], !.line = tr[3]])
    /\ UNCHANGED << shared, stacks, now, history >>
    /\ UNCHANGED << report, scope >>

\* if (!atomic_load(&g_initialized)) __narwhalyzer_init();
reg_check_init(t) ==
    /\ pc[t] = "reg_check_init"
    /\ IF g_initialized = 0
       THEN Goto(t, "init_cas", [frame[t] EXCEPT !.after = "reg_lock"])
       ELSE Goto(t, "reg_lock", frame[t])
    /\ UNCHANGED << shared, stacks, now, history >>
    /\ UNCHANGED << report, scope >>

\* pthread_mutex_lock(&g_registration_mutex)
reg_lock(t) ==
    /\ pc[t] = "reg_lock"
    /\ g_registration_mutex = 0
    /\ g_registration_mutex' = t
    /\ Goto(t, "reg_lookup", frame[t])
    /\ UNCHANGED << g_sections, g_section_count, g_initialized,
                    g_program_start_time_ns, atexit_hooks, stacks, now, history >>
    /\ UNCHANGED << report, scope >>

\* The lookup loop; on a hit unlock and return i, else idx = fetch_add(&g_section_count, 1).
reg_lookup(t) ==
    /\ pc[t] = "reg_lookup"
    /\ LET f == frame[t]
           i == LookupSection(g_section_count, f.name, f.file, f.line)
       IN  IF i >= 0
           THEN /\ g_registration_mutex' = pthread_mutex_unlock(g_registration_mutex)
                /\ g_section_count' = g_section_count
                /\ ReturnValue(t, "ret_register", i)
           ELSE /\ g_registration_mutex' = g_registration_mutex
                /\ g_section_count' = g_section_count + 1
                /\ Goto(t, "reg_alloc", [f EXCEPT !.idx = g_section_count])
    /\ UNCHANGED << g_sections, g_initialized, g_program_start_time_ns,
                    atexit_hooks, stacks, now, history >>
    /\ UNCHANGED << report, scope >>

\* if (idx >= MAX) { fetch_sub; unlock; return -1 } else initialize the slot, unlock, return idx.
reg_alloc(t) ==
    /\ pc[t] = "reg_alloc"
    /\ LET f == frame[t]
       IN  IF f.idx >= NARWHALYZER_MAX_SECTIONS
           THEN /\ g_section_count' = UndoReservation(g_section_count)
                /\ g_sections' = g_sections
                /\ ReturnValue(t, "ret_register", -1)
           ELSE /\ g_section_count' = g_section_count
                /\ g_sections' = [g_sections EXCEPT
                        ![f.idx] = NewSection(f.name, f.file, f.line)]
                /\ ReturnValue(t, "ret_register", f.idx)
    /\ g_registration_mutex' = pthread_mutex_unlock(g_registration_mutex)
    /\ UNCHANGED << g_initialized, g_program_start_time_ns, atexit_hooks,
                    stacks, now, history >>
    /\ UNCHANGED << report, scope >>

\* register_section hands its result to the call site.
ret_register(t) ==
    /\ pc[t] = "ret_register"
    /\ LET tr == << frame[t].name, frame[t].file, frame[t].line >>
       IN  returned' = [returned EXCEPT ![tr] = @ \cup {frame[t].ret}]
    /\ Goto(t, "idle", NoFrame)
    /\ UNCHANGED << shared, stacks, now, measured, entered >>
    /\ UNCHANGED << report, scope >>

(* ------------------------------------------------------------------ *)
(* __narwhalyzer_section_enter                                         *)
(* ------------------------------------------------------------------ *)

\* A range check that lets the index g_section_count through.
InvalidIndex_offbyone(section_index, count) == section_index < 0 \/ section_index > count

\* section_index < 0 || section_index >= atomic_load(&g_section_count)
InvalidIndex(section_index, count) == section_index < 0 \/ section_index >= count

\* ctx_idx >= NARWHALYZER_MAX_NESTING_DEPTH
StackFull(ctx_idx) == ctx_idx >= NARWHALYZER_MAX_NESTING_DEPTH

\* An overflow branch that leaves the increment of the stack top in place.
TopAfterOverflow_nodec(top) == top + 1

\* The stack top after the overflow branch: ++g_context_stack_top, then g_context_stack_top--.
TopAfterOverflow(top) == (top + 1) - 1

\* A context that records section 0 whatever section is entered.
NewContext_section0(section_index, ts, ctx_idx) ==
    [ section_index |-> 0, start_time_ns |-> ts,
      parent_context_index |-> IF ctx_idx > 0 THEN ctx_idx - 1 ELSE -1 ]

\* The context section_enter writes at ctx_idx.
NewContext(section_index, ts, ctx_idx) ==
    [ section_index |-> section_index, start_time_ns |-> ts,
      parent_context_index |-> IF ctx_idx > 0 THEN ctx_idx - 1 ELSE -1 ]

\* s->parent_index == -1 && ctx_idx > 0
ParentUnset(s, ctx_idx) == s.parent_index = -1 /\ ctx_idx > 0

\* A store that takes the section of the new context itself.
BeneathSection_own(stack, ctx_idx) == stack[ctx_idx].section_index

\* g_context_stack[ctx_idx - 1].section_index
BeneathSection(stack, ctx_idx) == stack[ctx_idx - 1].section_index

\* A call of __narwhalyzer_section_enter(section_index).
CallEnter(t, section_index) ==
    /\ pc[t] = "idle"
    /\ Goto(t, "enter_check", [NoFrame EXCEPT !.section_index = section_index])
    /\ UNCHANGED << shared, stacks, now, history >>
    /\ UNCHANGED << report, scope >>

\* The range check against g_section_count.
enter_check(t) ==
    /\ pc[t] = "enter_check"
    /\ IF InvalidIndex(frame[t].section_index, g_section_count)
       THEN ReturnValue(t, "ret_enter", -1)
       ELSE Goto(t, "enter_push", frame[t])
    /\ UNCHANGED << shared, stacks, now, history >>
    /\ UNCHANGED << report, scope >>

\* ctx_idx = ++g_context_stack_top; the overflow branch, or the new context with its timestamp.
enter_push(t, ts) ==
    /\ pc[t] = "enter_push"
    /\ LET ctx_idx == g_context_stack_top[t] + 1
       IN  IF StackFull(ctx_idx)
           THEN /\ g_context_stack_top' = [g_context_stack_top EXCEPT
                        ![t] = TopAfterOverflow(@)]
                /\ UNCHANGED << g_context_stack, now >>
                /\ ReturnValue(t, "ret_enter", -1)
           ELSE /\ g_context_stack_top' = [g_context_stack_top EXCEPT ![t] = ctx_idx]
                /\ now' = ts
                /\ g_context_stack' = [g_context_stack EXCEPT
                      ![t][ctx_idx] = NewContext(frame[t].section_index, ts, ctx_idx)]
                /\ Goto(t, "enter_count", [frame[t] EXCEPT !.ctx_idx = ctx_idx])
    /\ UNCHANGED << shared, history >>
    /\ UNCHANGED << report, scope >>

\* __atomic_fetch_add(&s->entry_count, 1, __ATOMIC_RELAXED)
enter_count(t) ==
    /\ pc[t] = "enter_count"
    /\ LET s == frame[t].section_index
       IN  /\ g_sections' = [g_sections EXCEPT ![s].entry_count = @ + 1]
           /\ entered' = [entered EXCEPT ![t][s] = @ + 1]
    /\ Goto(t, "enter_parent_test", frame[t])
    /\ UNCHANGED << g_section_count, g_initialized, g_program_start_time_ns,
                    g_registration_mutex, atexit_hooks, stacks, now, measured, returned >>
    /\ UNCHANGED << report, scope >>

\* if (s->parent_index == -1 && ctx_idx > 0): the plain read of parent_index;
\* return ctx_idx when the test fails.
enter_parent_test(t) ==
    /\ pc[t] = "enter_parent_test"
    /\ IF ParentUnset(g_sections[frame[t].section_index], frame[t].ctx_idx)
       THEN Goto(t, "enter_parent_store", frame[t])
       ELSE ReturnValue(t, "ret_enter", frame[t].ctx_idx)
    /\ UNCHANGED << shared, stacks, now, history >>
    /\ UNCHANGED << report, scope >>

\* s->parent_index = g_context_stack[ctx_idx - 1].section_index: the plain store;
\* return ctx_idx.
enter_parent_store(t) ==
    /\ pc[t] = "enter_parent_store"
    /\ LET f == frame[t]
       IN  g_sections' = [g_sections EXCEPT ![f.section_index].parent_index =
                              BeneathSection(g_context_stack[t], f.ctx_idx)]
    /\ ReturnValue(t, "ret_enter", frame[t].ctx_idx)
    /\ UNCHANGED << g_section_count, g_initialized, g_program_start_time_ns,
                    g_registration_mutex, atexit_hooks, stacks, now, history >>
    /\ UNCHANGED << report, scope >>

\* section_enter hands its result to the call site.
ret_enter(t) ==
    /\ pc[t] = "ret_enter"
    /\ Goto(t, "idle", NoFrame)
    /\ UNCHANGED << shared, stacks, now, history >>
    /\ UNCHANGED << report, scope >>

(* ------------------------------------------------------------------ *)
(* __narwhalyzer_section_exit                                          *)
(* ------------------------------------------------------------------ *)

\* A range check that lets the context id one above the stack top through.
InvalidContext_offbyone(context_index, top) == context_index < 0 \/ context_index > top + 1

\* context_index < 0 || context_index > g_context_stack_top
InvalidContext(context_index, top) == context_index < 0 \/ context_index > top

\* A pop that does not compare the context id with the stack top.
PopTop_always(context_index, top) == top - 1

\* An exit that never pops.
PopTop_never(context_index, top) == top

\* The stack top after the pop: decremented only if the exited context is the top.
PopTop(context_index, top) == IF context_index = top THEN top - 1 ELSE top

\* The minimum a successful compare-and-swap of the min loop stores.
NewMin(elapsed_ns, old_min) == elapsed_ns

\* A max loop that stores the value it read back.
NewMax_swapped(elapsed_ns, old_max) == old_max

\* The maximum a successful compare-and-swap of the max loop stores.
NewMax(elapsed_ns, old_max) == elapsed_ns

\* A plain store of the duration in place of the atomic addition.
AddElapsed_overwrite(cumulative_time_ns, elapsed_ns) == elapsed_ns

\* The sum __atomic_fetch_add(&s->cumulative_time_ns, elapsed_ns) stores.
AddElapsed(cumulative_time_ns, elapsed_ns) == cumulative_time_ns + elapsed_ns

\* A failed compare-and-swap that leaves the expected value as it was.
ExpectedAfterFailure_stale(old, cur) == old

\* The expected value after a failed __atomic_compare_exchange_n: the value
\* the location held (old_min, old_max are passed by address).
ExpectedAfterFailure(old, cur) == cur

\* section_exit returns: to the call site, or into the cleanup hook that
\* called it for the guard frame[t].guard.
ReturnFromExit(t) ==
    IF frame[t].guard = NoGuard
    THEN Goto(t, "idle", NoFrame)
    ELSE Goto(t, "guard_clear", [NoFrame EXCEPT !.guard = frame[t].guard])

\* A call of __narwhalyzer_section_exit(context_index).
CallExit(t, context_index) ==
    /\ pc[t] = "idle"
    /\ Goto(t, "exit_check", [NoFrame EXCEPT !.context_index = context_index])
    /\ UNCHANGED << shared, stacks, now, history >>
    /\ UNCHANGED << report, scope >>

\* The range check; then end_time_ns, ctx, elapsed_ns and s.
exit_check(t, end_time_ns) ==
    /\ pc[t] = "exit_check"
    /\ LET c == frame[t].context_index
       IN  IF InvalidContext(c, g_context_stack_top[t])
           THEN /\ ReturnFromExit(t)
                /\ UNCHANGED << now, measured >>
           ELSE LET ctx == g_context_stack[t][c]
                    elapsed_ns == end_time_ns - ctx.start_time_ns
                IN  /\ now' = end_time_ns
                    /\ measured' = [measured EXCEPT
                          ![ctx.section_index][elapsed_ns] = @ + 1]
                    /\ Goto(t, "exit_add",
                            [frame[t] EXCEPT !.section_index = ctx.section_index,
                                             !.elapsed_ns = elapsed_ns])
    /\ UNCHANGED << shared, stacks, entered, returned >>
    /\ UNCHANGED << report, scope >>

\* __atomic_fetch_add(&s->cumulative_time_ns, elapsed_ns, __ATOMIC_RELAXED)
exit_add(t) ==
    /\ pc[t] = "exit_add"
    /\ g_sections' = [g_sections EXCEPT ![frame[t].section_index].cumulative_time_ns =
                          AddElapsed(@, frame[t].elapsed_ns)]
    /\ Goto(t, "exit_min_read", frame[t])
    /\ UNCHANGED << g_section_count, g_initialized, g_program_start_time_ns,
                    g_registration_mutex, atexit_hooks, stacks, now, history >>
    /\ UNCHANGED << report, scope >>

\* uint64_t old_min = s->min_time_ns
exit_min_read(t) ==
    /\ pc[t] = "exit_min_read"
    /\ Goto(t, "exit_min_cas",
            [frame[t] EXCEPT !.old = g_sections[frame[t].section_index].min_time_ns])
    /\ UNCHANGED << shared, stacks, now, history >>
    /\ UNCHANGED << report, scope >>

\* One turn of the min loop: the test, and the compare-and-swap when it passes.
exit_min_cas(t) ==
    /\ pc[t] = "exit_min_cas"
    /\ LET f == frame[t]
           cur == g_sections[f.section_index].min_time_ns
       IN  IF f.elapsed_ns < f.old
           THEN IF CasSucceeds(cur, f.old)
                THEN /\ g_sections' = [g_sections EXCEPT ![f.section_index].min_time_ns =
                                           NewMin(f.elapsed_ns, f.old)]
                     /\ Goto(t, "exit_max_read", [f EXCEPT !.old = 0])
                ELSE /\ g_sections' = g_sections
                     /\ Goto(t, "exit_min_cas", [f EXCEPT !.old = ExpectedAfterFailure(f.old, cur)])
           ELSE /\ g_sections' = g_sections
                /\ Goto(t, "exit_max_read", [f EXCEPT !.old = 0])
    /\ UNCHANGED << g_section_count, g_initialized, g_program_start_time_ns,
                    g_registration_mutex, atexit_hooks, stacks, now, history >>
    /\ UNCHANGED << report, scope >>

\* uint64_t old_max = s->max_time_ns
exit_max_read(t) ==
    /\ pc[t] = "exit_max_read"
    /\ Goto(t, "exit_max_cas",
            [frame[t] EXCEPT !.old = g_sections[frame[t].section_index].max_time_ns])
    /\ UNCHANGED << shared, stacks, now, history >>
    /\ UNCHANGED << report, scope >>

\* One turn of the max loop: the test, and the compare-and-swap when it passes.
exit_max_cas(t) ==
    /\ pc[t] = "exit_max_cas"
    /\ LET f == frame[t]
           cur == g_sections[f.section_index].max_time_ns
       IN  IF f.elapsed_ns > f.old
           THEN IF CasSucceeds(cur, f.old)
                THEN /\ g_sections' = [g_sections EXCEPT ![f.section_index].max_time_ns =
                                           NewMax(f.elapsed_ns, f.old)]
                     /\ Goto(t, "exit_pop", [f EXCEPT !.old = 0])
                ELSE /\ g_sections' = g_sections
                     /\ Goto(t, "exit_max_cas", [f EXCEPT !.old = ExpectedAfterFailure(f.old, cur)])
           ELSE /\ g_sections' = g_sections
                /\ Goto(t, "exit_pop", [f EXCEPT !.old = 0])
    /\ UNCHANGED << g_section_count, g_initialized, g_program_start_time_ns,
                    g_registration_mutex, atexit_hooks, stacks, now, history >>
    /\ UNCHANGED << report, scope >>

\* if (context_index == g_context_stack_top) g_context_stack_top--; and the return.
exit_pop(t) ==
    /\ pc[t] = "exit_pop"
    /\ g_context_stack_top' = [g_context_stack_top EXCEPT
            ![t] = PopTop(frame[t].context_index, @)]
    /\ ReturnFromExit(t)
    /\ UNCHANGED << shared, g_context_stack, now, history >>
    /\ UNCHANGED << report, scope >>

(* ------------------------------------------------------------------ *)
(* __narwhalyzer_scope_guard_cleanup                                   *)
(* ------------------------------------------------------------------ *)

\* A test that lets every guard through, valid or not.
StillValid_always(guard) == TRUE

\* guard->valid
StillValid(guard) == guard.valid # 0

\* guard->valid = 0
ClearedGuard(guard) == [guard EXCEPT !.valid = 0]

\* The initialiser of NARWHALYZER_GUARDED_SECTION and NARWHALYZER_FUNCTION,
\* { ctx, 1 }: guard g of thread t comes to life holding a context id that
\* section_enter returned (-1 when it refused).
NewGuard(t, g, context_index) ==
    /\ pc[t] = "idle"
    /\ guards' = [guards EXCEPT ![t][g] = [context_index |-> context_index, valid |-> 1]]
    /\ guard_exits' = [guard_exits EXCEPT ![t][g] = << >>]
    /\ UNCHANGED << shared, stacks, now, pc, frame, history, report, block >>

\* A call of __narwhalyzer_scope_guard_cleanup(guard): the guard leaves its
\* scope, or a caller passes a pointer (NoGuard is the null pointer).
CallCleanup(t, g) ==
    /\ pc[t] = "idle"
    /\ Goto(t, "guard_check", [NoFrame EXCEPT !.guard = g])
    /\ UNCHANGED << shared, stacks, now, history, report, scope >>

\* if (guard && guard->valid) __narwhalyzer_section_exit(guard->context_index);
guard_check(t) ==
    /\ pc[t] = "guard_check"
    /\ LET g == frame[t].guard
       IN  IF g # NoGuard /\ StillValid(guards[t][g])
           THEN /\ Goto(t, "exit_check",
                        [NoFrame EXCEPT !.guard = g,
                                        !.context_index = guards[t][g].context_index])
                /\ guard_exits' = [guard_exits EXCEPT ![t][g] =
                                       Append(@, guards[t][g].context_index)]
           ELSE /\ Goto(t, "idle", NoFrame)
                /\ UNCHANGED guard_exits
    /\ UNCHANGED << shared, stacks, now, history, report, guards, block >>

\* guard->valid = 0; and the return.
guard_clear(t) ==
    /\ pc[t] = "guard_clear"
    /\ guards' = [guards EXCEPT ![t][frame[t].guard] = ClearedGuard(@)]
    /\ Goto(t, "idle", NoFrame)
    /\ UNCHANGED << shared, stacks, now, history, report, guard_exits, block >>

\* The steps thread t takes inside __narwhalyzer_scope_guard_cleanup.
CleanupStep(t) == guard_check(t) \/ guard_clear(t)

(* ------------------------------------------------------------------ *)
(* The specifications                                                  *)
(* ------------------------------------------------------------------ *)

\* The steps thread t takes inside __narwhalyzer_init.
InitStep(t, horizon) ==
    \/ init_cas(t) \/ init_memset(t)
    \/ \E ts \in Timestamps(horizon) : init_time(t, ts)

\* The steps thread t takes inside __narwhalyzer_register_section.
RegisterStep(t) ==
    \/ reg_check_init(t) \/ reg_lock(t) \/ reg_lookup(t) \/ reg_alloc(t) \/ ret_register(t)

\* The steps thread t takes inside __narwhalyzer_section_enter.
EnterStep(t, horizon) ==
    \/ enter_check(t) \/ enter_count(t) \/ enter_parent_test(t)
    \/ enter_parent_store(t) \/ ret_enter(t)
    \/ \E ts \in Timestamps(horizon) : enter_push(t, ts)

\* The steps thread t takes inside __narwhalyzer_section_exit.
ExitStep(t, horizon) ==
    \/ exit_add(t) \/ exit_min_read(t) \/ exit_min_cas(t)
    \/ exit_max_read(t) \/ exit_max_cas(t) \/ exit_pop(t)
    \/ \E ts \in Timestamps(horizon) : exit_check(t, ts)

\* The indices register_section has handed to call sites.
RegisteredIndices == { i \in SectionIndices : \E tr \in Triples : i \in returned[tr] }

\* The number of contexts section_enter has pushed.
NumEntered == SumOver([t \in Threads |-> SumOver(entered[t], SectionIndices)], Threads)

\* The number of durations section_exit has measured.
NumMeasured == SumOver([i \in SectionIndices |-> SumOver(measured[i], Durations)], SectionIndices)

\* The calls of instrumented code (NARWHALYZER_SECTION): a call site registers
\* its triple while the index it caches is negative, enters a section that was
\* registered and exits the context it entered last.  A thread pushes at most
\* budget contexts.
NestedCall(t, triples, budget) ==
    \/ \E tr \in triples :
          /\ \A i \in returned[tr] : i < 0
          /\ CallRegister(t, tr)
    \/ \E i \in RegisteredIndices :
          /\ \/ SumOver(entered[t], SectionIndices) < budget
             \/ StackFull(g_context_stack_top[t] + 1)
          /\ CallEnter(t, i)
    \/ g_context_stack_top[t] >= 0 /\ CallExit(t, g_context_stack_top[t])

\* The calls of an arbitrary caller: any triple, any index, any context id.
AnyCall(t) ==
    \/ CallInit(t)
    \/ \E tr \in SeqTriples : CallRegister(t, tr)
    \/ \E i \in -1..NARWHALYZER_MAX_SECTIONS :
          /\ \/ NumEntered < MaxEntersSeq
             \/ InvalidIndex(i, g_section_count)
             \/ StackFull(g_context_stack_top[t] + 1)
          /\ CallEnter(t, i)
    \/ \E c \in -1..NARWHALYZER_MAX_NESTING_DEPTH :
          /\ NumMeasured < MaxExits \/ InvalidContext(c, g_context_stack_top[t])
          /\ CallExit(t, c)

\* The process after the constructor __narwhalyzer_init (constructor(101)) has run.
Init ==
    /\ g_sections = [i \in SectionIndices |-> ZeroSection]
    /\ g_section_count = 0
    /\ g_context_stack = [t \in Threads |-> [c \in ContextIndices |-> ZeroContext]]
    /\ g_context_stack_top = [t \in Threads |-> -1]
    /\ g_initialized = 1
    /\ g_program_start_time_ns = 0
    /\ g_registration_mutex = 0
    /\ atexit_hooks = 1
    /\ now = 0
    /\ pc = [t \in Threads |-> "idle"]
    /\ frame = [t \in Threads |-> NoFrame]
    /\ measured = [i \in SectionIndices |-> [d \in Durations |-> 0]]
    /\ entered = [t \in Threads |-> [i \in SectionIndices |-> 0]]
    /\ returned = [tr \in Triples |-> {}]
    /\ g_report_printed = 0
    /\ g_program_end_time_ns = 0
    /\ output = << >>
    /\ InitScope

\* Spec: instrumented threads on two call sites, every step interleaved.
Next ==
    \E t \in Threads :
        \/ NestedCall(t, HotTriples, MaxEnters)
        \/ RegisterStep(t) \/ EnterStep(t, MaxTime) \/ ExitStep(t, MaxTime)

Spec == Init /\ [][Next]_vars

\* SpecExit: instrumented threads on one call site (a section nested in
\* itself), every step interleaved, a finer clock.
NextExit ==
    \E t \in Threads :
        \/ NestedCall(t, ExitTriples, MaxEntersExit)
        \/ RegisterStep(t) \/ EnterStep(t, MaxTimeExit) \/ ExitStep(t, MaxTimeExit)

SpecExit == Init /\ [][NextExit]_vars

\* SpecExitFair: SpecExit with a scheduler that lets every thread inside
\* section_enter or section_exit take its next step; a thread inside
\* register_section may stop for ever, also while it holds the mutex.
SpecExitFair ==
    /\ Init
    /\ [][NextExit]_vars
    /\ \A t \in Threads :
          WF_vars(EnterStep(t, MaxTimeExit)) /\ WF_vars(ExitStep(t, MaxTimeExit))

\* SpecReg: threads registering any of the triples, every step interleaved.
NextReg ==
    \E t \in Threads :
        \/ \E tr \in Triples : CallRegister(t, tr)
        \/ RegisterStep(t)

SpecReg == Init /\ [][NextReg]_vars

\* SpecRegFair: SpecReg with a scheduler that lets every thread inside
\* register_section take its next step whenever that step stays possible.  A
\* thread waiting in pthread_mutex_lock can step only while the mutex is free;
\* pthread mutexes promise no order among the waiters.
SpecRegFair ==
    /\ Init
    /\ [][NextReg]_vars
    /\ \A t \in Threads : WF_vars(RegisterStep(t))

\* SpecSeq: one thread calling the API with arbitrary arguments, from the
\* static initial state of the process.
NextSeq ==
    \E t \in SeqThreads :
        \/ AnyCall(t)
        \/ InitStep(t, MaxTimeSeq) \/ RegisterStep(t)
        \/ EnterStep(t, MaxTimeSeq) \/ ExitStep(t, MaxTimeSeq)

SpecSeq == InitStatic /\ [][NextSeq]_vars

\* SpecInit: threads calling __narwhalyzer_init and registering, every step
\* interleaved, from the static initial state of the process.
NextInit ==
    \E t \in Threads :
        \/ CallInit(t)
        \/ \E tr \in HotTriples : CallRegister(t, tr)
        \/ InitStep(t, MaxTimeInit) \/ RegisterStep(t)

SpecInit == InitStatic /\ [][NextInit]_vars

\* The cleanup of thread t's guard g will reach the measurement of section_exit.
CleanupMeasures(t, g) ==
    /\ g # NoGuard
    /\ StillValid(guards[t][g])
    /\ ~InvalidContext(guards[t][g].context_index, g_context_stack_top[t])

\* The calls of code instrumented with scope guards: a call site registers its
\* triple, enters it, initialises a guard, and a guard is cleaned up when its
\* scope ends or when a caller hands it (or a null pointer) to the hook; the
\* call site may also exit by hand.
GuardedCall(t) ==
    \/ NestedCall(t, ExitTriples, MaxEntersGuard)
    \/ \E g \in GuardIds : \E c \in -1..(NARWHALYZER_MAX_NESTING_DEPTH - 1) :
          NewGuard(t, g, c)
    \/ \E g \in GuardIds \cup {NoGuard} :
          /\ NumMeasured < MaxExitsGuard \/ ~CleanupMeasures(t, g)
          /\ CallCleanup(t, g)

\* SpecGuard: one thread using scope guards, after the constructor has run.
NextGuard ==
    \E t \in SeqThreads :
        \/ GuardedCall(t)
        \/ RegisterStep(t) \/ EnterStep(t, MaxTimeGuard) \/ ExitStep(t, MaxTimeGuard)
        \/ CleanupStep(t)

SpecGuard == Init /\ [][NextGuard]_vars

(* ------------------------------------------------------------------ *)
(* NARWHALYZER_SECTION                                                 *)
(* ------------------------------------------------------------------ *)

\* The macro expands to four nested for statements.  From the outside in:
\*   L1  for (int once = 1; once; )
\*   L2  for (static int idx = -1; once; )
\*   L3  for (idx = (idx < 0) ? register_section(...) : idx; once; )
\*   L4  for (int ctx = section_enter(idx); once; section_exit(ctx), once = 0)
\* and the block that follows the macro is the body of L4.

\* The triple of the call site, (name, __FILE__, __LINE__).
BlockTriple == << "a", "f", 1 >>

\* The ways the body of the block leaves: at its end, or with a break or a
\* continue statement that is not inside a loop of the body.
BodyOutcomes == { "end", "break", "continue" }

\* The number of body runs in a trace.
BodyRuns(trace) == Cardinality({ p \in DOMAIN trace : trace[p][1] = "body" })

\* Control reaches the macro: once = 1 (L1); the initialiser of the static
\* idx is not executed again (L2); the tests of L1 and L2 pass.
block_begin(t) ==
    /\ pc[t] = "idle"
    /\ block.pos = "out"
    /\ block.runs < MaxBlocks
    /\ block' = [block EXCEPT !.pos = "l3_init", !.once = 1, !.runs = @ + 1,
                              !.trace = << >>]
    /\ UNCHANGED << shared, stacks, now, pc, frame, history, report, guards, guard_exits >>

\* The initialiser of L3: idx = (idx < 0) ? register_section(...) : idx.
block_l3_init(t) ==
    /\ pc[t] = "idle"
    /\ block.pos = "l3_init"
    /\ IF block.idx < 0
       THEN /\ Goto(t, "reg_check_init",
                    [NoFrame EXCEPT !.name = BlockTriple[1], !.file = BlockTriple[2],
                                    !.line = BlockTriple[3]])
            /\ block' = [block EXCEPT !.pos = "l3_call"]
       ELSE /\ block' = [block EXCEPT !.pos = "l3_test"]
            /\ UNCHANGED << pc, frame >>
    /\ UNCHANGED << shared, stacks, now, history, report, guards, guard_exits >>

\* register_section returns and its result is stored in idx.
block_l3_assign(t) ==
    /\ pc[t] = "ret_register"
    /\ block.pos = "l3_call"
    /\ returned' = [returned EXCEPT ![BlockTriple] = @ \cup {frame[t].ret}]
    /\ block' = [block EXCEPT !.idx = frame[t].ret, !.pos = "l3_test"]
    /\ Goto(t, "idle", NoFrame)
    /\ UNCHANGED << shared, stacks, now, measured, entered, report, guards, guard_exits >>

\* The test of L3; when it fails the tests of L2 and L1, which read the same
\* once, fail too and control leaves the macro.
block_l3_test(t) ==
    /\ pc[t] = "idle"
    /\ block.pos = "l3_test"
    /\ block' = [block EXCEPT !.pos = IF block.once # 0 THEN "l4_init" ELSE "out"]
    /\ UNCHANGED << shared, stacks, now, pc, frame, history, report, guards, guard_exits >>

\* The initialiser of L4 calls section_enter(idx).
block_l4_init(t) ==
    /\ pc[t] = "idle"
    /\ block.pos = "l4_init"
    /\ Goto(t, "enter_check", [NoFrame EXCEPT !.section_index = block.idx])
    /\ block' = [block EXCEPT !.pos = "l4_call"]
    /\ UNCHANGED << shared, stacks, now, history, report, guards, guard_exits >>

\* section_enter returns and its result initialises ctx.
block_l4_assign(t) ==
    /\ pc[t] = "ret_enter"
    /\ block.pos = "l4_call"
    /\ block' = [block EXCEPT !.ctx = frame[t].ret, !.pos = "l4_test",
                              !.trace = Append(@, << "enter", frame[t].ret >>)]
    /\ Goto(t, "idle", NoFrame)
    /\ UNCHANGED << shared, stacks, now, history, report, guards, guard_exits >>

\* The test of L4.
block_l4_test(t) ==
    /\ pc[t] = "idle"
    /\ block.pos = "l4_test"
    /\ block' = [block EXCEPT !.pos = IF block.once # 0 THEN "body" ELSE "l3_test"]
    /\ UNCHANGED << shared, stacks, now, pc, frame, history, report, guards, guard_exits >>

\* The body runs.  At its end and on continue control goes to the third
\* expression of L4; break ends L4 without it, and L3, which has no third
\* expression, evaluates its test next.
block_body(t, outcome) ==
    /\ pc[t] = "idle"
    /\ block.pos = "body"
    /\ BodyRuns(block.trace) < MaxBodyRuns
    /\ block' = [block EXCEPT !.pos = IF outcome = "break" THEN "l3_test" ELSE "l4_incr",
                              !.trace = Append(@, << "body", -1 >>)]
    /\ UNCHANGED << shared, stacks, now, pc, frame, history, report, guards, guard_exits >>

\* The third expression of L4 calls section_exit(ctx) ...
block_l4_incr(t) ==
    /\ pc[t] = "idle"
    /\ block.pos = "l4_incr"
    /\ Goto(t, "exit_check", [NoFrame EXCEPT !.context_index = block.ctx])
    /\ block' = [block EXCEPT !.pos = "l4_exit",
                              !.trace = Append(@, << "exit", block.ctx >>)]
    /\ UNCHANGED << shared, stacks, now, history, report, guards, guard_exits >>

\* ... and, when the call has returned, once = 0.
block_l4_once(t) ==
    /\ pc[t] = "idle"
    /\ block.pos = "l4_exit"
    /\ block' = [block EXCEPT !.once = 0, !.pos = "l4_test"]
    /\ UNCHANGED << shared, stacks, now, pc, frame, history, report, guards, guard_exits >>

\* The steps of the block itself.
BlockStep(t) ==
    \/ block_begin(t) \/ block_l3_init(t) \/ block_l3_assign(t) \/ block_l3_test(t)
    \/ block_l4_init(t) \/ block_l4_assign(t) \/ block_l4_test(t)
    \/ block_l4_incr(t) \/ block_l4_once(t)
    \/ \E outcome \in BodyOutcomes : block_body(t, outcome)

\* SpecMacro: one thread executing the NARWHALYZER_SECTION block of one call
\* site, after the constructor has run.  The results of register_section and
\* section_enter are taken by the block (block_l3_assign, block_l4_assign).
NextMacro ==
    \E t \in SeqThreads :
        \/ BlockStep(t)
        \/ reg_check_init(t) \/ reg_lock(t) \/ reg_lookup(t) \/ reg_alloc(t)
        \/ enter_check(t) \/ enter_count(t) \/ enter_parent_test(t)
        \/ enter_parent_store(t)
        \/ \E ts \in Timestamps(MaxTimeMacro) : enter_push(t, ts)
        \/ ExitStep(t, MaxTimeMacro)

SpecMacro == Init /\ [][NextMacro]_vars

(* ------------------------------------------------------------------ *)
(* Vocabulary of the properties                                        *)
(* ------------------------------------------------------------------ *)

\* The number of durations in the bag m.
BagCount(m) == SumOver(m, Durations)

\* The sum of the durations in the bag m.
BagSum(m) == SumOver([d \in Durations |-> d * m[d]], Durations)

\* The smallest and the largest duration in the non-empty bag m.
BagMin(m) == CHOOSE d \in Durations : m[d] > 0 /\ \A e \in Durations : m[e] > 0 => d <= e
BagMax(m) == CHOOSE d \in Durations : m[d] > 0 /\ \A e \in Durations : m[e] > 0 => e <= d

\* No activation of section s is open: no thread holds a context of s at or below its top.
NoneOpen(s) ==
    \A t \in Threads : \A c \in ContextIndices :
        c <= g_context_stack_top[t] => g_context_stack[t][c].section_index # s

\* The positions inside section_enter, inside section_exit and inside register_section.
EnterPcs == { "enter_check", "enter_push", "enter_count", "enter_parent_test",
              "enter_parent_store" }
ExitPcs == { "exit_check", "exit_add", "exit_min_read", "exit_min_cas",
             "exit_max_read", "exit_max_cas", "exit_pop" }
RegisterPcs == { "reg_check_init", "init_cas", "init_time", "init_memset",
                 "reg_lock", "reg_lookup", "reg_alloc" }

\* The triple thread t is registering.
FrameTriple(t) == << frame[t].name, frame[t].file, frame[t].line >>

\* Thread t, inside register_section, finds every slot taken: all slots are in
\* use before its reservation, or the slot it reserved lies beyond the table.
RegistryFull(t) ==
    IF pc[t] = "reg_alloc"
    THEN frame[t].idx >= NARWHALYZER_MAX_SECTIONS
    ELSE g_section_count >= NARWHALYZER_MAX_SECTIONS

\* Every thread is in no call and its stack is empty.
Quiescent == \A t \in Threads : pc[t] = "idle" /\ g_context_stack_top[t] = -1

(* ------------------------------------------------------------------ *)
(* __narwhalyzer_fini and the report                                   *)
(* ------------------------------------------------------------------ *)

\* A line of the report: what printf writes, with the numbers it formats
\* kept as numbers (format_time only chooses the unit).
TextLine(kind) ==
    [ kind |-> kind, idx |-> -1, entries |-> 0, cumulative |-> 0, mean |-> 0,
      min |-> 0, max |-> 0, depth |-> 0, is_last |-> FALSE ]

\* A comparison that sorts by ascending cumulative time.
compare_sections_by_time_ascending(ia, ib) ==
    LET time_a == g_sections[ia].cumulative_time_ns
        time_b == g_sections[ib].cumulative_time_ns
    IN  IF time_b < time_a THEN 1 ELSE IF time_b > time_a THEN -1 ELSE 0

\* compare_sections_by_time(a, b)
compare_sections_by_time(ia, ib) ==
    LET time_a == g_sections[ia].cumulative_time_ns
        time_b == g_sections[ib].cumulative_time_ns
    IN  IF time_b > time_a THEN 1 ELSE IF time_b < time_a THEN -1 ELSE 0

\* The arrangements of the indices 0 .. section_count - 1.
IndexOrders(section_count) ==
    { p \in [1..section_count -> 0..(section_count - 1)] :
        \A i, j \in 1..section_count : i # j => p[i] # p[j] }

\* The arrays qsort may leave in sorted_indices: every arrangement in which no
\* element compares greater than a later one; elements that compare equal come
\* in an order qsort does not specify.
SortOutcomes(section_count) ==
    { p \in IndexOrders(section_count) :
        \A i, j \in 1..section_count :
            i < j => compare_sections_by_time(p[i], p[j]) <= 0 }

\* The row print_flat_summary prints for section idx.
FlatRow(idx) ==
    LET s == g_sections[idx]
    IN  [ TextLine("row") EXCEPT
            !.idx = idx, !.entries = s.entry_count,
            !.cumulative = s.cumulative_time_ns,
            !.mean = s.cumulative_time_ns \div s.entry_count,
            !.min = s.min_time_ns, !.max = s.max_time_ns ]

\* The test print_flat_summary, print_hierarchy_view and print_section_details
\* make before they print a section: if (s->entry_count == 0) continue.
Skipped(s) == s.entry_count = 0

RECURSIVE FlatRows(_, _)
\* The row loop of print_flat_summary from position i of sorted_indices on.
FlatRows(sorted_indices, i) ==
    IF i > Len(sorted_indices) THEN << >>
    ELSE (IF Skipped(g_sections[sorted_indices[i]]) THEN << >>
          ELSE << FlatRow(sorted_indices[i]) >>)
         \o FlatRows(sorted_indices, i + 1)

\* print_flat_summary(section_count, total_time_ns), sorted_indices as qsort left it.
print_flat_summary(section_count, total_time_ns, sorted_indices) ==
    IF section_count = 0
    THEN << TextLine("No instrumented sections were executed.") >>
    ELSE << TextLine("NARWHALYZER PROFILING REPORT"),
            [ TextLine("Total Program Time") EXCEPT !.cumulative = total_time_ns ],
            [ TextLine("Sections Instrumented") EXCEPT !.entries = section_count ],
            TextLine("FLAT SUMMARY") >>
         \o FlatRows(sorted_indices, 1)

RECURSIVE Ascending(_)
\* The elements of a finite set of integers in ascending order.
Ascending(S) ==
    IF S = {} THEN << >>
    ELSE LET x == CHOOSE y \in S : \A z \in S : y <= z
         IN  << x >> \o Ascending(S \ {x})

\* nodes[parent].children after the loop of print_hierarchy_view.  Iteration i
\* first empties nodes[i] (children = NULL, child_count = 0) and then appends
\* i to the node of its parent: the children appended to nodes[parent] in the
\* iterations i < parent are dropped when iteration parent empties that node,
\* and those of the iterations i >= parent stay, in ascending order.
Children(section_count, parent) ==
    Ascending({ i \in 0..(section_count - 1) :
                  g_sections[i].parent_index = parent /\ i >= parent })

\* A root test that takes every section for a root.
Roots_all(section_count) == Ascending(0..(section_count - 1))

\* root_sections after the loop of print_hierarchy_view.
Roots(section_count) ==
    Ascending({ i \in 0..(section_count - 1) : g_sections[i].parent_index < 0 })

RECURSIVE print_hierarchy_recursive(_, _, _, _)
RECURSIVE PrintChildren(_, _, _, _)
\* print_hierarchy_recursive(nodes, idx, prefix, is_last): the line of the
\* node, then its children; the prefix is kept as its depth.
print_hierarchy_recursive(section_count, idx, depth, is_last) ==
    << [ TextLine("node") EXCEPT
           !.idx = idx, !.cumulative = g_sections[idx].cumulative_time_ns,
           !.depth = depth, !.is_last = is_last ] >>
    \o PrintChildren(section_count, Children(section_count, idx), 1, depth + 1)

\* for (i = j - 1; i < node->child_count; i++) print_hierarchy_recursive(...)
PrintChildren(section_count, children, j, depth) ==
    IF j > Len(children) THEN << >>
    ELSE print_hierarchy_recursive(section_count, children[j], depth, j = Len(children))
         \o PrintChildren(section_count, children, j + 1, depth)

RECURSIVE PrintRoots(_, _, _)
\* The root loop of print_hierarchy_view from position i of root_sections on.
PrintRoots(section_count, root_sections, i) ==
    IF i > Len(root_sections) THEN << >>
    ELSE (IF Skipped(g_sections[root_sections[i]]) THEN << >>
          ELSE << [ TextLine("root") EXCEPT
                      !.idx = root_sections[i],
                      !.cumulative = g_sections[root_sections[i]].cumulative_time_ns ] >>
               \o PrintChildren(section_count,
                                Children(section_count, root_sections[i]), 1, 1))
         \o PrintRoots(section_count, root_sections, i + 1)

\* print_hierarchy_view(section_count)
print_hierarchy_view(section_count) ==
    IF section_count = 0 THEN << >>
    ELSE << TextLine("HIERARCHICAL VIEW") >>
         \o PrintRoots(section_count, Roots(section_count), 1)

RECURSIVE Revisits(_, _, _)
\* The descent of print_hierarchy_recursive from node idx, itself at the given
\* depth, goes deeper than there are sections: it has come back to a node it
\* is still printing, and the recursion has no other exit than the end of the
\* children, so it never returns.
Revisits(section_count, idx, depth) ==
    IF depth >= section_count THEN TRUE
    ELSE \E j \in 1..Len(Children(section_count, idx)) :
            Revisits(section_count, Children(section_count, idx)[j], depth + 1)

\* print_hierarchy_view(section_count) does not return: the descent from one of
\* the roots it prints never ends.
RecursesForever(section_count) ==
    \E i \in 1..Len(Roots(section_count)) :
        /\ ~Skipped(g_sections[Roots(section_count)[i]])
        /\ Revisits(section_count, Roots(section_count)[i], 0)

RECURSIVE DetailEntries_all(_, _)
\* A loop of print_section_details without the test of entry_count.
DetailEntries_all(section_count, i) ==
    IF i >= section_count THEN << >>
    ELSE << [ TextLine("detail") EXCEPT
                !.idx = i, !.entries = g_sections[i].entry_count ] >>
         \o DetailEntries_all(section_count, i + 1)

RECURSIVE DetailEntries(_, _)
\* The loop of print_section_details from index i on.
DetailEntries(section_count, i) ==
    IF i >= section_count THEN << >>
    ELSE (IF Skipped(g_sections[i]) THEN << >>
          ELSE << [ TextLine("detail") EXCEPT
                      !.idx = i, !.entries = g_sections[i].entry_count ] >>)
         \o DetailEntries(section_count, i + 1)

\* print_section_details(section_count)
print_section_details(section_count) ==
    << TextLine("SECTION DETAILS") >> \o DetailEntries(section_count, 0)

\* A call of __narwhalyzer_fini().
CallFini(t) ==
    /\ pc[t] = "idle"
    /\ Goto(t, "fini_cas", NoFrame)
    /\ UNCHANGED << scope, shared, stacks, now, history, report >>

\* atomic_compare_exchange_strong(&g_report_printed, &expected, 1)
fini_cas(t) ==
    /\ pc[t] = "fini_cas"
    /\ IF CasSucceeds(g_report_printed, 0)
       THEN /\ g_report_printed' = 1
            /\ Goto(t, "fini_time", frame[t])
       ELSE /\ g_report_printed' = g_report_printed
            /\ Goto(t, "idle", NoFrame)
    /\ UNCHANGED << scope, shared, stacks, now, history, g_program_end_time_ns, output >>

\* g_program_end_time_ns = __narwhalyzer_get_timestamp_ns(); total_time_ns
fini_time(t, ts) ==
    /\ pc[t] = "fini_time"
    /\ now' = ts
    /\ g_program_end_time_ns' = ts
    /\ Goto(t, "fini_count",
            [frame[t] EXCEPT !.total_time_ns = ts - g_program_start_time_ns])
    /\ UNCHANGED << scope, shared, stacks, history, g_report_printed, output >>

\* section_count = atomic_load(&g_section_count); if (section_count == 0) return
fini_count(t) ==
    /\ pc[t] = "fini_count"
    /\ IF g_section_count = 0
       THEN Goto(t, "idle", NoFrame)
       ELSE Goto(t, "fini_flat", [frame[t] EXCEPT !.section_count = g_section_count])
    /\ UNCHANGED << scope, shared, stacks, now, history, report >>

\* print_flat_summary(section_count, total_time_ns)
fini_flat(t, sorted_indices) ==
    /\ pc[t] = "fini_flat"
    /\ output' = output \o print_flat_summary(frame[t].section_count,
                                              frame[t].total_time_ns, sorted_indices)
    /\ Goto(t, "fini_hierarchy", frame[t])
    /\ UNCHANGED << scope, shared, stacks, now, history, g_report_printed,
                    g_program_end_time_ns >>

\* print_hierarchy_view(section_count)
fini_hierarchy(t) ==
    /\ pc[t] = "fini_hierarchy"
    /\ ~RecursesForever(frame[t].section_count)
    /\ output' = output \o print_hierarchy_view(frame[t].section_count)
    /\ Goto(t, "fini_details", frame[t])
    /\ UNCHANGED << scope, shared, stacks, now, history, g_report_printed,
                    g_program_end_time_ns >>

\* print_section_details(section_count); the closing line; return
fini_details(t) ==
    /\ pc[t] = "fini_details"
    /\ output' = output \o print_section_details(frame[t].section_count)
                        \o << TextLine("END OF NARWHALYZER REPORT") >>
    /\ Goto(t, "idle", NoFrame)
    /\ UNCHANGED << scope, shared, stacks, now, history, g_report_printed,
                    g_program_end_time_ns >>

\* The steps thread t takes inside __narwhalyzer_fini.
FiniStep(t, horizon) ==
    \/ fini_cas(t) \/ fini_count(t) \/ fini_hierarchy(t) \/ fini_details(t)
    \/ \E ts \in Timestamps(horizon) : fini_time(t, ts)
    \/ \E sorted_indices \in SortOutcomes(frame[t].section_count) :
          fini_flat(t, sorted_indices)

\* The triples of the sections of a table of SpecReport, by index.
ReportTriples == << <<"a", "f", 1>>, <<"b", "f", 1>>, <<"a", "g", 1>>, <<"a", "f", 2>> >>

\* The bags of at most n durations: the exits completed out of n enters.
CompletedBags(n) ==
    { m \in [Durations -> 0..MaxEntriesReport] : BagCount(m) <= n }

\* The section with triple tr after n enters (the first nested one under
\* parent, none nested when parent is -1) and exits that measured the bag m:
\* what register_section, section_enter and section_exit leave.
SectionAfter(tr, n, m, parent) ==
    [ NewSection(tr[1], tr[2], tr[3]) EXCEPT
        !.entry_count = n,
        !.cumulative_time_ns = BagSum(m),
        !.min_time_ns = IF BagCount(m) > 0 THEN BagMin(m) ELSE UINT64_MAX,
        !.max_time_ns = IF BagCount(m) > 0 THEN BagMax(m) ELSE 0,
        !.parent_index = parent ]

\* The process at exit, before the finalizer: section_count sections with any
\* entry counts and completed durations; a parent is a section that was
\* entered, a section is its own parent only when it was entered twice, and
\* two sections are each other's parent only when both were entered twice.
InitReport ==
    /\ g_section_count \in 0..NARWHALYZER_MAX_SECTIONS
    /\ entered \in [Threads -> [SectionIndices -> 0..MaxEntriesReport]]
    /\ \A t \in Threads \ {1} : \A i \in SectionIndices : entered[t][i] = 0
    /\ \A i \in SectionIndices : i >= g_section_count => entered[1][i] = 0
    /\ measured \in [SectionIndices -> CompletedBags(MaxEntriesReport)]
    /\ \A i \in SectionIndices : BagCount(measured[i]) <= entered[1][i]
    /\ g_sections \in [SectionIndices ->
          { ZeroSection } \cup
          { SectionAfter(ReportTriples[i + 1], entered[1][i], measured[i], parent) :
              i \in SectionIndices, parent \in -1..(g_section_count - 1) }]
    /\ \A i \in SectionIndices :
          IF i >= g_section_count
          THEN g_sections[i] = ZeroSection
          ELSE /\ \E parent \in -1..(g_section_count - 1) :
                     g_sections[i] = SectionAfter(ReportTriples[i + 1], entered[1][i],
                                                  measured[i], parent)
               /\ LET parent == g_sections[i].parent_index
                  IN  parent >= 0 =>
                        /\ entered[1][i] >= 1
                        /\ entered[1][parent] >= 1
                        /\ parent = i => entered[1][i] >= 2
                        /\ g_sections[parent].parent_index = i
                              => entered[1][i] >= 2 /\ entered[1][parent] >= 2
    /\ returned = [tr \in Triples |->
                     { i \in 0..(g_section_count - 1) : ReportTriples[i + 1] = tr }]
    /\ g_context_stack = [t \in Threads |-> [c \in ContextIndices |-> ZeroContext]]
    /\ g_context_stack_top = [t \in Threads |-> -1]
    /\ g_initialized = 1
    /\ g_program_start_time_ns = 0
    /\ g_registration_mutex = 0
    /\ atexit_hooks = 1
    /\ now = 0
    /\ pc = [t \in Threads |-> "idle"]
    /\ frame = [t \in Threads |-> NoFrame]
    /\ g_report_printed = 0
    /\ g_program_end_time_ns = 0
    /\ output = << >>
    /\ InitScope

\* SpecReport: the finalizer called by the destructor, the atexit hook or any
\* thread, every step interleaved, on every table of InitReport.
NextReport ==
    \E t \in Threads : CallFini(t) \/ FiniStep(t, MaxTimeReport)

SpecReport == InitReport /\ [][NextReport]_vars

\* SpecReportFair: SpecReport with a scheduler that lets every thread inside
\* the finalizer take its next step.
SpecReportFair ==
    /\ InitReport
    /\ [][NextReport]_vars
    /\ \A t \in Threads : WF_vars(FiniStep(t, MaxTimeReport))

\* SpecLife: one thread calling the initializer, the finalizer and the
\* instrumentation of one call site in any order, from the static initial
\* state of the process.
NextLife ==
    \E t \in SeqThreads :
        \/ CallInit(t)
        \/ CallFini(t)
        \/ NestedCall(t, ExitTriples, MaxEntersLife)
        \/ InitStep(t, MaxTimeLife) \/ RegisterStep(t)
        \/ EnterStep(t, MaxTimeLife) \/ ExitStep(t, MaxTimeLife)
        \/ FiniStep(t, MaxTimeLife)

SpecLife == InitStatic /\ [][NextLife]_vars

(* ------------------------------------------------------------------ *)
(* Properties                                                         *)
(* ------------------------------------------------------------------ *)

\* C1: whenever no activation of a registered section is open, its entry_count
\* is the number N of durations section_exit measured for it, its
\* cumulative_time_ns is their sum and, when N > 0, its min_time_ns and
\* max_time_ns are the smallest and the largest of them (Spec: per-thread
\* nested calls, any interleaving).
C1_CompletedStats ==
    \A s \in RegisteredIndices :
        NoneOpen(s) =>
            LET m == measured[s]
                sec == g_sections[s]
            IN  /\ sec.entry_count = BagCount(m)
                /\ sec.cumulative_time_ns = BagSum(m)
                /\ BagCount(m) > 0 =>
                      /\ sec.min_time_ns = BagMin(m)
                      /\ sec.max_time_ns = BagMax(m)

\* C1 witness: a section with no open activation, three completed ones of
\* different durations, and another section that was entered too.
C1_Witness ==
    /\ Quiescent
    /\ \E s \in RegisteredIndices :
          /\ BagCount(measured[s]) >= 3
          /\ measured[s][0] > 0 /\ measured[s][1] > 0
          /\ \E r \in RegisteredIndices : r # s /\ g_sections[r].entry_count > 0

\* C2: when every one of the T threads has completed K enter/exit pairs on the
\* same section, its entry_count is T*K and its cumulative_time_ns is the sum
\* of the T*K durations measured (SpecExit, K = MaxEntersExit).
C2_ConcurrentSums ==
    \A s \in SectionIndices :
        (Quiescent /\ \A t \in Threads : entered[t][s] = MaxEntersExit) =>
            /\ g_sections[s].entry_count = NumThreads * MaxEntersExit
            /\ BagCount(measured[s]) = NumThreads * MaxEntersExit
            /\ g_sections[s].cumulative_time_ns = BagSum(measured[s])

\* C2 witness: all T*K pairs are done and they measured a non-zero total.
C2_Witness ==
    /\ Quiescent
    /\ \E s \in SectionIndices :
          /\ \A t \in Threads : entered[t][s] = MaxEntersExit
          /\ g_sections[s].cumulative_time_ns >= 2

\* C3: whenever no section_exit is in progress, min_time_ns and max_time_ns of
\* a section with measured durations are the minimum and the maximum of all of
\* them (SpecExit: the reads and compare-and-swaps of concurrent exits
\* interleave in every order).
C3_Extrema ==
    (\A t \in Threads : pc[t] \notin ExitPcs) =>
        \A s \in RegisteredIndices :
            BagCount(measured[s]) > 0 =>
                /\ g_sections[s].min_time_ns = BagMin(measured[s])
                /\ g_sections[s].max_time_ns = BagMax(measured[s])

\* C3 witness: exits that measured three different durations have all returned.
C3_Witness ==
    /\ \A t \in Threads : pc[t] \notin ExitPcs
    /\ \E s \in RegisteredIndices :
          measured[s][0] > 0 /\ measured[s][1] > 0 /\ measured[s][2] > 0

\* C4: every call of register_section with the same triple (its file not
\* null) returns the same value, and a call with a triple that was registered
\* before leaves g_section_count and every section as they are: no new slot,
\* no reset of statistics or parent (SpecSeq: registrations interleaved with
\* other registrations and with enter and exit calls).
C4_Idempotent ==
    /\ [](\A tr \in Triples : tr[2] # NULL => Cardinality(returned[tr]) <= 1)
    /\ [][\A t \in Threads :
            ( /\ pc[t] \in RegisterPcs
              /\ frame[t].file # NULL
              /\ \E i \in returned[FrameTriple(t)] : i >= 0 )
            => /\ g_section_count' = g_section_count
               /\ g_sections' = g_sections
               /\ pc'[t] = "ret_register" => frame'[t].ret \in returned[FrameTriple(t)]
         ]_vars

\* C4 witness: a triple is registered again after its section was entered
\* nested and exited with a non-zero duration, and after another triple was
\* registered.
C4_Witness ==
    \E t \in Threads :
        /\ pc[t] = "ret_register"
        /\ frame[t].file # NULL
        /\ frame[t].ret = 0
        /\ 0 \in returned[FrameTriple(t)]
        /\ g_section_count = 2
        /\ g_sections[0].entry_count > 0
        /\ g_sections[0].cumulative_time_ns > 0
        /\ g_sections[0].parent_index = 1

\* C5: two calls of register_section with different triples never return the
\* same non-negative index (SpecReg: the registrations of the threads
\* interleave in every order).
C5_DistinctIndices ==
    \A tr1, tr2 \in Triples :
        tr1 # tr2 => \A i \in returned[tr1] \cap returned[tr2] : i < 0

\* C5 witness: the registry is full of two triples, and triples that differ
\* from the first in the name, in the file or in the line were all refused.
C5_Witness ==
    /\ returned[<<"a", "f", 1>>] = {0}
    /\ \E tr \in Triples : returned[tr] = {1}
    /\ Cardinality({ tr \in Triples : -1 \in returned[tr] }) >= 3

\* C6: register_section returns the indices 0, 1, ... in order while slots are
\* left, and -1 to a triple that is not registered once the capacity is
\* reached; the failing call leaves every section as it is and the count at
\* the capacity, and from then on only triples registered before get an index
\* (SpecSeq).
C6_Overflow ==
    /\ []((\A t \in Threads : pc[t] \notin RegisterPcs) =>
            /\ g_section_count <= NARWHALYZER_MAX_SECTIONS
            /\ (\E tr \in Triples : -1 \in returned[tr]) =>
                  g_section_count = NARWHALYZER_MAX_SECTIONS)
    /\ []((\A t \in Threads : pc[t] \notin RegisterPcs \cup {"ret_register"}) =>
            RegisteredIndices = 0..(g_section_count - 1))
    /\ [][\A t \in Threads :
            (pc[t] \in RegisterPcs /\ RegistryFull(t))
            => /\ g_sections' = g_sections
               /\ pc'[t] = "ret_register" =>
                     /\ g_section_count' = NARWHALYZER_MAX_SECTIONS
                     /\ \/ frame'[t].ret = -1
                        \/ frame'[t].ret \in returned[FrameTriple(t)]
         ]_vars

\* C6 witness: capacity + 1 different triples were registered, the last one
\* was refused, and the sections of the first ones hold statistics.
C6_Witness ==
    /\ \A t \in Threads : pc[t] = "idle"
    /\ g_section_count = NARWHALYZER_MAX_SECTIONS
    /\ \E tr \in Triples : returned[tr] = {-1}
    /\ \A i \in SectionIndices : g_sections[i].entry_count > 0
    /\ \E i \in SectionIndices : g_sections[i].cumulative_time_ns > 0

\* C7: once the parent_index of a section is set, a section_enter of that
\* section that completes afterwards leaves it as it is: the step with which
\* a thread returns from section_enter(s) does not change a parent_index of s
\* that was already set (Spec: the calls of the threads overlap).
C7_ParentKept ==
    [][\A t \in Threads :
          (/\ pc[t] \in EnterPcs
           /\ pc'[t] = "ret_enter"
           /\ ~InvalidIndex(frame[t].section_index, g_section_count)
           /\ g_sections[frame[t].section_index].parent_index # -1)
          => g_sections'[frame[t].section_index].parent_index =
                 g_sections[frame[t].section_index].parent_index
      ]_vars

\* C8: the parent_index of a section is written at most once: no step of any
\* thread changes a parent_index that is set (Spec: two threads make the
\* first nested section_enter of one section concurrently).
C8_ParentWrittenOnce ==
    [][\A i \in RegisteredIndices :
          g_sections[i].parent_index # -1
          => g_sections'[i].parent_index = g_sections[i].parent_index
      ]_vars

\* C9: section_enter with a negative index or an index >= g_section_count
\* returns -1 at its range check, and the call changes no stack top, no
\* stored context and no section (SpecSeq: every index -1..capacity is tried
\* against every count).
C9_InvalidIndexRejected ==
    [][\A t \in Threads :
          /\ (pc[t] = "idle" /\ pc'[t] = "enter_check")
             => UNCHANGED << g_context_stack_top, g_context_stack, g_sections >>
          /\ (/\ pc[t] = "enter_check"
              /\ pc'[t] # pc[t]
              /\ (frame[t].section_index < 0 \/ frame[t].section_index >= g_section_count))
             => /\ pc'[t] = "ret_enter"
                /\ frame'[t].ret = -1
                /\ UNCHANGED << g_context_stack_top, g_context_stack, g_sections,
                                g_section_count >>
      ]_vars

\* C9 witness: with a full registry, a refused registration and an open
\* context on the stack, section_enter(g_section_count) has returned -1.
C9_Witness ==
    \E t \in Threads :
        /\ pc[t] = "ret_enter"
        /\ frame[t].ret = -1
        /\ frame[t].section_index = g_section_count
        /\ g_section_count = NARWHALYZER_MAX_SECTIONS
        /\ \E tr \in Triples : -1 \in returned[tr]
        /\ g_context_stack_top[t] >= 0

\* C10: section_enter with a valid index on a thread whose stack holds
\* NARWHALYZER_MAX_NESTING_DEPTH contexts returns -1 from its push step and
\* leaves the stack top, the stored contexts and every section (entry_count,
\* parent_index) as they were (SpecSeq).
C10_DepthOverflowRejected ==
    [][\A t \in Threads :
          (/\ pc[t] = "enter_push"
           /\ pc'[t] # pc[t]
           /\ g_context_stack_top[t] + 1 = NARWHALYZER_MAX_NESTING_DEPTH)
          => /\ pc'[t] = "ret_enter"
             /\ frame'[t].ret = -1
             /\ UNCHANGED << g_context_stack_top, g_context_stack, g_sections >>
      ]_vars

\* C10 witness: a thread with a full stack called section_enter with a valid
\* index of a section entered before, and got -1.
C10_Witness ==
    \E t \in Threads :
        /\ pc[t] = "ret_enter"
        /\ frame[t].ret = -1
        /\ frame[t].section_index >= 0
        /\ frame[t].section_index < g_section_count
        /\ g_context_stack_top[t] + 1 = NARWHALYZER_MAX_NESTING_DEPTH
        /\ g_sections[frame[t].section_index].entry_count > 0

\* C11: section_exit with a context id that is negative or greater than the
\* stack top of the calling thread returns from its range check; neither the
\* call nor the check changes a section (entry_count, cumulative_time_ns,
\* min_time_ns, max_time_ns), a stack top or a stored context (SpecSeq: every
\* context id -1..depth is tried against every stack).
C11_InvalidExitNoOp ==
    [][\A t \in Threads :
          /\ (pc[t] = "idle" /\ pc'[t] = "exit_check")
             => UNCHANGED << g_sections, g_context_stack_top, g_context_stack >>
          /\ (/\ pc[t] = "exit_check"
              /\ pc'[t] # pc[t]
              /\ (frame[t].context_index < 0
                  \/ frame[t].context_index > g_context_stack_top[t]))
             => /\ pc'[t] = "idle"
                /\ UNCHANGED << g_sections, g_context_stack_top, g_context_stack,
                                measured >>
      ]_vars

\* C11 witness: section_exit was called with the id just above the top of a
\* stack that holds a context, while a section holds measured statistics.
C11_Witness ==
    \E t \in Threads :
        /\ pc[t] = "exit_check"
        /\ g_context_stack_top[t] >= 0
        /\ frame[t].context_index = g_context_stack_top[t] + 1
        /\ \E i \in RegisteredIndices :
              g_sections[i].entry_count > 0 /\ g_sections[i].cumulative_time_ns > 0

\* C12: the last step of section_exit lowers the stack top of the calling
\* thread by one exactly when the context id equals the top, and leaves it
\* otherwise; no step of section_exit changes a stored context or the top in
\* another way, and the top never falls below -1 (SpecSeq).
C12_PopOnlyTop ==
    /\ [](\A t \in Threads : g_context_stack_top[t] >= -1)
    /\ [][\A t \in Threads :
            (pc[t] \in ExitPcs /\ pc'[t] # pc[t])
            => /\ g_context_stack' = g_context_stack
               /\ g_context_stack_top'[t] =
                     IF pc[t] = "exit_pop" /\ frame[t].context_index = g_context_stack_top[t]
                     THEN g_context_stack_top[t] - 1
                     ELSE g_context_stack_top[t]
         ]_vars

\* C12 witness: both enters of a thread are still on its stack although an
\* exit has measured a duration: the exit was of the context below the top.
C12_Witness ==
    \E t \in SeqThreads :
        /\ pc[t] = "idle"
        /\ g_context_stack_top[t] = 1
        /\ NumEntered = 2
        /\ NumMeasured >= 1

\* C13: a section_enter that returns c >= 0 leaves its section in slot c of
\* the stack of its thread, only a section_enter writing slot c changes that
\* slot, and the steps of a section_exit with a valid context id c change
\* nothing but cumulative_time_ns, min_time_ns and max_time_ns of the section
\* in slot c; an exit with an invalid id changes no section (SpecSeq: exits
\* in any order, repeated, and of contexts popped before).
C13_ExitTouchesOwnSection ==
    /\ [](\A t \in Threads :
            (pc[t] = "ret_enter" /\ frame[t].ret >= 0)
            => g_context_stack[t][frame[t].ret].section_index = frame[t].section_index)
    /\ [][\A t \in Threads : \A c \in ContextIndices :
            g_context_stack'[t][c] # g_context_stack[t][c]
            => pc[t] = "enter_push" /\ c = g_context_stack_top[t] + 1
         ]_vars
    /\ [][\A t \in Threads :
            (pc[t] \in ExitPcs /\ pc'[t] # pc[t])
            => LET c == frame[t].context_index
               IN  \A i \in SectionIndices :
                      g_sections'[i] # g_sections[i]
                      => /\ c >= 0 /\ c <= g_context_stack_top[t]
                         /\ i = g_context_stack[t][c].section_index
                         /\ g_sections'[i].entry_count = g_sections[i].entry_count
                         /\ g_sections'[i].parent_index = g_sections[i].parent_index
                         /\ g_sections'[i].name = g_sections[i].name
                         /\ g_sections'[i].file = g_sections[i].file
                         /\ g_sections'[i].line = g_sections[i].line
         ]_vars

\* C13 witness: an exit of the context below the top is adding its duration
\* to the section entered there, while another section is on top.
C13_Witness ==
    \E t \in Threads :
        /\ pc[t] = "exit_min_read"
        /\ g_context_stack_top[t] = 1
        /\ frame[t].context_index = 0
        /\ g_context_stack[t][1].section_index # g_context_stack[t][0].section_index
        /\ g_sections[g_context_stack[t][0].section_index].cumulative_time_ns > 0
        /\ g_sections[g_context_stack[t][1].section_index].entry_count > 0

\* C14: when every exit is of the context on top (enclosing sections exit
\* after nested ones), then whenever no call is in progress the contexts on
\* the stacks are the enters for which no exit was made: the stack depths sum
\* to the number of enters minus the number of exits, and only the own push
\* and pop of a thread change its depth (SpecExit).
C14_LeakedSlot ==
    /\ []((\A t \in Threads : pc[t] = "idle")
            => SumOver([t \in Threads |-> g_context_stack_top[t] + 1], Threads)
                 = NumEntered - NumMeasured)
    /\ [][\A t \in Threads :
            g_context_stack_top'[t] # g_context_stack_top[t]
            => \/ pc[t] = "enter_push" /\ g_context_stack_top'[t] = g_context_stack_top[t] + 1
               \/ pc[t] = "exit_pop" /\ g_context_stack_top'[t] = g_context_stack_top[t] - 1
         ]_vars

\* C14 witness: a thread has used all its enters, one of them was exited and
\* the other still occupies slot 0 while the thread is in no call.
C14_Witness ==
    /\ \A t \in Threads : pc[t] = "idle"
    /\ \E t \in Threads :
          /\ g_context_stack_top[t] = 0
          /\ SumOver(entered[t], SectionIndices) = MaxEntersExit
    /\ NumMeasured >= 1

\* The positions of the one __narwhalyzer_init call that won the compare-and-swap.
InitWinnerPcs == { "init_time", "init_memset" }

\* C16: among explicit and lazy initializations on any threads at most one
\* passes the compare-and-swap on g_initialized, so the timestamp is recorded,
\* the table cleared and the hook registered by one call only, and by exactly
\* one once no call is past the compare-and-swap; an init call that finds
\* g_initialized set returns and leaves g_program_start_time_ns, g_sections
\* and g_section_count as they are (SpecInit).
C16_InitOnce ==
    /\ [](Cardinality({ t \in Threads : pc[t] \in InitWinnerPcs }) + atexit_hooks <= 1)
    /\ []((g_initialized = 1 /\ \A t \in Threads : pc[t] \notin InitWinnerPcs)
            => atexit_hooks = 1)
    /\ [][/\ g_program_start_time_ns' # g_program_start_time_ns
             => \E t \in Threads : pc[t] = "init_time" /\ pc'[t] = "init_memset"
          /\ atexit_hooks' # atexit_hooks
             => \E t \in Threads : pc[t] = "init_memset" /\ pc'[t] # pc[t]
          /\ \A t \in Threads :
                (pc[t] = "init_cas" /\ pc'[t] # pc[t] /\ g_initialized # 0)
                => /\ pc'[t] = frame[t].after
                   /\ UNCHANGED << g_program_start_time_ns, g_sections,
                                   g_section_count, atexit_hooks, g_initialized >>
         ]_vars

\* C16 witness: after the one initialization recorded a timestamp and a
\* section was registered, another thread is in an explicit init call.
C16_Witness ==
    \E t \in Threads :
        /\ pc[t] = "init_cas"
        /\ frame[t].after = "idle"
        /\ g_initialized = 1
        /\ atexit_hooks = 1
        /\ g_program_start_time_ns > 0
        /\ g_section_count >= 1
        /\ g_sections[0].name # NULL

\* The positions of the __narwhalyzer_fini call that won the compare-and-swap.
FiniWinnerPcs == { "fini_time", "fini_count", "fini_flat", "fini_hierarchy",
                   "fini_details" }

\* The positions in the output of the lines of one kind.
LinesOf(kind) == { p \in DOMAIN output : output[p].kind = kind }

\* The report is complete: a finalizer passed the compare-and-swap and returned.
Reported == g_report_printed = 1 /\ \A t \in Threads : pc[t] \notin FiniWinnerPcs

\* C15: of all calls of the finalizer, on any threads, at most one is ever
\* past the compare-and-swap on g_report_printed; the flag goes from 0 to 1
\* once, in that call; only that call writes output, the report heading is
\* written at most once, and a call that finds the flag set returns without
\* writing (SpecReport).
C15_ReportOnce ==
    /\ [](Cardinality({ t \in Threads : pc[t] \in FiniWinnerPcs }) <= 1)
    /\ []((output # << >> \/ \E t \in Threads : pc[t] \in FiniWinnerPcs)
            => g_report_printed = 1)
    /\ [](Cardinality(LinesOf("NARWHALYZER PROFILING REPORT")) <= 1
          /\ Cardinality(LinesOf("END OF NARWHALYZER REPORT")) <= 1)
    /\ [][/\ g_report_printed' # g_report_printed
             => /\ g_report_printed = 0
                /\ \E t \in Threads : pc[t] = "fini_cas" /\ pc'[t] = "fini_time"
          /\ output' # output
             => \E t \in Threads : pc[t] \in FiniWinnerPcs /\ pc'[t] # pc[t]
          /\ \A t \in Threads :
                (pc[t] = "fini_cas" /\ pc'[t] # pc[t] /\ g_report_printed # 0)
                => pc'[t] = "idle" /\ output' = output
         ]_vars

\* C15 witness: the report is written to its last line and another call of
\* the finalizer is at the compare-and-swap.
C15_Witness ==
    /\ Reported
    /\ LinesOf("END OF NARWHALYZER REPORT") # {}
    /\ LinesOf("row") # {}
    /\ \E t \in Threads : pc[t] = "fini_cas"

\* C17: when the report is complete and no section has entry_count > 0, the
\* output holds the statement that no sections were executed and holds
\* neither the hierarchical view nor the section details (SpecReport).
C17_EmptyReport ==
    (Reported /\ \A i \in 0..(g_section_count - 1) : g_sections[i].entry_count = 0)
    => /\ LinesOf("No instrumented sections were executed.") # {}
       /\ LinesOf("HIERARCHICAL VIEW") = {}
       /\ LinesOf("SECTION DETAILS") = {}

\* C18: once the flat summary is printed its rows are the sections with
\* entry_count > 0, one row each, in non-increasing order of
\* cumulative_time_ns, and the mean of a row is cumulative_time_ns divided by
\* an entry_count that is not zero (SpecReport: every table, every outcome of
\* the sort).
C18_FlatSummary ==
    LinesOf("FLAT SUMMARY") # {} =>
        /\ { output[p].idx : p \in LinesOf("row") }
             = { i \in 0..(g_section_count - 1) : g_sections[i].entry_count > 0 }
        /\ \A p, q \in LinesOf("row") :
              /\ p # q => output[p].idx # output[q].idx
              /\ p < q => output[p].cumulative >= output[q].cumulative
        /\ \A p \in LinesOf("row") :
              LET s == g_sections[output[p].idx]
              IN  /\ s.entry_count > 0
                  /\ output[p].entries = s.entry_count
                  /\ output[p].cumulative = s.cumulative_time_ns
                  /\ output[p].mean * s.entry_count <= s.cumulative_time_ns
                  /\ (output[p].mean + 1) * s.entry_count > s.cumulative_time_ns

\* C18 witness: a flat summary of two rows with different cumulative times,
\* the larger one of the section with the larger index, and a mean that the
\* integer division rounded down.
C18_Witness ==
    /\ Reported
    /\ \E p, q \in LinesOf("row") :
          /\ p < q
          /\ output[p].cumulative > output[q].cumulative
          /\ output[p].idx > output[q].idx
          /\ output[p].mean * output[p].entries < output[p].cumulative

\* C19: two rows of the flat summary with equal cumulative_time_ns come in
\* ascending order of their section indices, whatever the sort left in the
\* index array (SpecReport).
C19_TieOrder ==
    \A p, q \in LinesOf("row") :
        (p < q /\ output[p].cumulative = output[q].cumulative)
        => output[p].idx < output[q].idx

\* C20: no line of the report, be it a row of the flat summary, a root or a
\* node of the hierarchical view or an entry of the section details, is of a
\* section whose entry_count is 0 (SpecReport).
C20_NeverEnteredHidden ==
    \A p \in DOMAIN output :
        output[p].kind \in { "row", "root", "node", "detail" }
        => g_sections[output[p].idx].entry_count > 0

\* C20 witness: the complete report of a table with a section that was
\* registered and never entered, and a section printed in all three parts.
C20_Witness ==
    /\ Reported
    /\ \E i \in 0..(g_section_count - 1) : g_sections[i].entry_count = 0
    /\ LinesOf("row") # {} /\ LinesOf("root") # {} /\ LinesOf("detail") # {}

\* Thread t is inside the cleanup hook for its guard g.
InHook(t, g) ==
    /\ frame[t].guard = g
    /\ pc[t] \in {"guard_check", "guard_clear"} \cup ExitPcs

\* C21: the cleanup hook calls section_exit once for a guard whose valid flag
\* is set, with the guard's context id, and clears the flag; every later
\* cleanup of that guard, and a cleanup of a null guard or of a guard whose
\* flag is clear, calls section_exit zero times and changes nothing.
C21_GuardCleanup ==
    /\ [](\A t \in Threads : \A g \in GuardIds :
            /\ Len(guard_exits[t][g]) <= 1
            /\ \A k \in 1..Len(guard_exits[t][g]) :
                  guard_exits[t][g][k] = guards[t][g].context_index
            /\ ~InHook(t, g) /\ StillValid(guards[t][g]) =>
                  Len(guard_exits[t][g]) = 0)
    /\ [][\A t \in Threads :
            LET g == frame[t].guard
            IN  /\ pc[t] = "guard_check" =>
                      \/ pc'[t] = "guard_check" /\ UNCHANGED vars
                      \/ /\ g # NoGuard
                         /\ StillValid(guards[t][g])
                         /\ pc'[t] = "exit_check"
                         /\ frame'[t].context_index = guards[t][g].context_index
                         /\ guard_exits'[t][g] = << guards[t][g].context_index >>
                         /\ UNCHANGED guards
                      \/ /\ g = NoGuard \/ ~StillValid(guards[t][g])
                         /\ pc'[t] = "idle"
                         /\ UNCHANGED << shared, stacks, history, report, scope >>
                /\ pc[t] \in ExitPcs /\ g # NoGuard =>
                      pc'[t] \in ExitPcs \cup {"guard_clear"} /\ UNCHANGED scope
                /\ pc[t] = "guard_clear" /\ pc'[t] # "guard_clear" =>
                      /\ pc'[t] = "idle"
                      /\ Len(guard_exits[t][g]) = 1
                      /\ guards'[t][g] = [guards[t][g] EXCEPT !.valid = 0]
                      /\ UNCHANGED << shared, stacks, history, report, guard_exits >>
       ]_vars

\* C21 witness: a guard whose one cleanup made section_exit measure a duration
\* is handed to the hook a second time.
C21_Witness ==
    \E t \in Threads : \E g \in GuardIds :
        /\ pc[t] = "guard_check"
        /\ frame[t].guard = g
        /\ ~StillValid(guards[t][g])
        /\ Len(guard_exits[t][g]) = 1
        /\ NumMeasured >= 1

\* C22: once register_section has returned index i, section i's name, file
\* and line never change and its statistics are never reset, under every
\* interleaving, a lazy initialization running beside another thread's first
\* registration included.
C22_SectionImmutable ==
    [][\A i \in RegisteredIndices :
          /\ g_sections'[i].name = g_sections[i].name
          /\ g_sections'[i].file = g_sections[i].file
          /\ g_sections'[i].line = g_sections[i].line
          /\ g_sections'[i].entry_count >= g_sections[i].entry_count
          /\ g_sections'[i].cumulative_time_ns >= g_sections[i].cumulative_time_ns
      ]_vars

\* C23: the indices handed out are dense and never reused: whenever no
\* registration is in progress the valid indices returned so far are exactly
\* 0 .. g_section_count - 1; a registration that finds no match reserves the
\* value of g_section_count, and the index it then returns was never returned
\* before (SpecReg: the registrations of the threads interleave).
C23_DenseIndices ==
    /\ []((\A t \in Threads : pc[t] \notin RegisterPcs \cup {"ret_register"}) =>
            RegisteredIndices = 0..(g_section_count - 1))
    /\ [][\A t \in Threads :
            /\ pc[t] = "reg_lookup" /\ pc'[t] = "reg_alloc" =>
                  /\ frame'[t].idx = g_section_count
                  /\ g_section_count' = g_section_count + 1
            /\ pc[t] = "reg_alloc" /\ pc'[t] = "ret_register" /\ frame'[t].ret >= 0 =>
                  /\ frame'[t].ret = frame[t].idx
                  /\ frame'[t].ret = g_section_count' - 1
                  /\ frame'[t].ret \notin RegisteredIndices
            /\ \A tr \in Triples : returned[tr] \subseteq returned'[tr]
         ]_vars

\* C23 witness: both slots were handed out, a further triple was refused and no
\* registration is in progress.
C23_Witness ==
    /\ \A t \in Threads : pc[t] = "idle"
    /\ RegisteredIndices = 0..(NARWHALYZER_MAX_SECTIONS - 1)
    /\ g_section_count = NARWHALYZER_MAX_SECTIONS
    /\ \E tr \in Triples : returned[tr] = {-1}

\* C24: registrations of one section name from different source locations
\* (another file or another line, the file not null) return the same index,
\* so that the activations of both call sites fall into one section.
C24_SameNameAggregated ==
    \A tr1, tr2 \in Triples :
        (tr1[1] = tr2[1] /\ tr1[2] # NULL /\ tr2[2] # NULL) =>
            \A i \in returned[tr1], j \in returned[tr2] :
                (i >= 0 /\ j >= 0) => i = j

\* C25: calls of register_section with the same triple (its file not null)
\* that overlap on different threads all return the same index, and together
\* they raise g_section_count by one: once the calls have returned, the count
\* is the number of triples that were given an index.
C25_ConcurrentSameTriple ==
    /\ \A tr \in Triples : tr[2] # NULL => Cardinality(returned[tr]) <= 1
    /\ (\A t \in Threads : pc[t] = "idle" /\ \A tr \in Triples : returned[tr] # {} => tr[2] # NULL)
          => g_section_count =
                Cardinality({ tr \in Triples : \E i \in returned[tr] : i >= 0 })

\* C26: with the registry full, register_section of a triple that was given
\* an index before returns that index again and not -1.
C26_FullStillFinds ==
    [][\A t \in Threads :
          ( /\ pc[t] \in RegisterPcs
            /\ RegistryFull(t)
            /\ FrameTriple(t) \in Triples
            /\ \E i \in returned[FrameTriple(t)] : i >= 0
            /\ pc'[t] = "ret_register" )
          => /\ frame'[t].ret >= 0
             /\ frame'[t].ret \in returned[FrameTriple(t)]
      ]_vars

\* C27: a triple whose file is null is matched like any other: every
\* registration of it returns the same index, and whenever no registration is
\* in progress g_section_count is the number of distinct triples that were
\* given an index.
C27_NullFileMatches ==
    /\ \A tr \in Triples :
          tr[2] = NULL => Cardinality({ i \in returned[tr] : i >= 0 }) <= 1
    /\ (\A t \in Threads : pc[t] \notin RegisterPcs \cup {"ret_register"})
          => g_section_count =
                Cardinality({ tr \in Triples : \E i \in returned[tr] : i >= 0 })

\* C28: in every reachable state, the states inside a register_section call
\* that fails for lack of capacity included, g_section_count is at most the
\* capacity, so that the range check of section_enter rejects the index
\* NARWHALYZER_MAX_SECTIONS, which lies outside the table.
C28_CountWithinCapacity ==
    /\ g_section_count <= NARWHALYZER_MAX_SECTIONS
    /\ InvalidIndex(NARWHALYZER_MAX_SECTIONS, g_section_count)

\* C29: a second section_exit with the context id of an activation that was
\* exited before adds no duration, whatever was entered in between: for every
\* section the number of durations section_exit has added never exceeds the
\* section's entry_count.
C29_NoDoubleExit ==
    \A s \in SectionIndices : BagCount(measured[s]) <= g_sections[s].entry_count

\* The number of contexts of section s stored on the stack of thread t, in the
\* positions 0 .. g_context_stack_top.
OpenOn(t, s) ==
    Cardinality({ c \in 0..g_context_stack_top[t] :
                    g_context_stack[t][c].section_index = s })

\* C30: under nested use, whenever no thread is inside an API call, the
\* entry_count of every section is the number of its completed activations
\* plus the number of contexts of that section on the stacks of all threads.
C30_EntryCountBalance ==
    (\A t \in Threads : pc[t] = "idle") =>
        \A s \in SectionIndices :
            g_sections[s].entry_count =
                BagCount(measured[s]) + SumOver([t \in Threads |-> OpenOn(t, s)], Threads)

\* C30 witness: between calls, a section has a completed activation, an open
\* context on each of two threads' stacks, and another section is open too.
C30_Witness ==
    /\ \A t \in Threads : pc[t] = "idle"
    /\ \E s \in SectionIndices :
          /\ BagCount(measured[s]) >= 1
          /\ \A t \in Threads : OpenOn(t, s) >= 1
          /\ \E r \in SectionIndices \ {s} : \E t \in Threads : OpenOn(t, r) >= 1

\* C31: whatever arguments section_enter and section_exit are called with, the
\* stack top of every thread stays within -1 .. NARWHALYZER_MAX_NESTING_DEPTH - 1,
\* and every context at a position 0 .. top holds the index of a section in
\* use and the position beneath it as parent_context_index (-1 at position 0).
C31_StackWellFormed ==
    \A t \in Threads :
        /\ g_context_stack_top[t] \in -1..(NARWHALYZER_MAX_NESTING_DEPTH - 1)
        /\ \A c \in 0..g_context_stack_top[t] :
              /\ g_context_stack[t][c].section_index \in 0..(g_section_count - 1)
              /\ g_context_stack[t][c].parent_context_index =
                    (IF c > 0 THEN c - 1 ELSE -1)

\* C31 witness: the stack is full, a context below the top was exited out of
\* order, and a further section_enter has just been refused.
C31_Witness ==
    \E t \in Threads :
        /\ g_context_stack_top[t] = NARWHALYZER_MAX_NESTING_DEPTH - 1
        /\ NumEntered = NARWHALYZER_MAX_NESTING_DEPTH
        /\ NumMeasured >= 1
        /\ pc[t] = "ret_enter"
        /\ frame[t].ret = -1
        /\ ~InvalidIndex(frame[t].section_index, g_section_count)

\* C32: parent_index of a section is only ever set by a section_enter of that
\* section, to the section of the context directly beneath the new context on
\* the entering thread's own stack; an enter on an empty stack sets nothing,
\* and under nested use the context beneath is an open activation (Spec: the
\* calls of the threads overlap).
C32_ParentFromBeneath ==
    [][\A s \in RegisteredIndices :
          g_sections'[s].parent_index # g_sections[s].parent_index =>
              \E t \in Threads :
                  /\ pc[t] = "enter_parent_store"
                  /\ pc'[t] = "ret_enter"
                  /\ frame[t].section_index = s
                  /\ frame[t].ctx_idx > 0
                  /\ frame[t].ctx_idx = g_context_stack_top[t]
                  /\ g_sections'[s].parent_index =
                        g_context_stack[t][frame[t].ctx_idx - 1].section_index
                  /\ g_sections[g_sections'[s].parent_index].entry_count >
                        BagCount(measured[g_sections'[s].parent_index])
      ]_vars

\* C32 witness: a section entered inside another section has that section as
\* parent, and a section entered on an empty stack, with activations
\* completed, has none.
C32_Witness ==
    \E s, r \in RegisteredIndices :
        /\ s # r
        /\ g_sections[s].parent_index = r
        /\ g_sections[r].parent_index = -1
        /\ BagCount(measured[r]) >= 1
        /\ \A t \in Threads : pc[t] = "idle"

\* The positions in the output of the lines the hierarchical view prints for
\* section i, as a root or as a node beneath a root.
HierarchyLines(i) ==
    { p \in LinesOf("root") \cup LinesOf("node") : output[p].idx = i }

\* C33: the hierarchical view is complete: once the report is written, every
\* section with entry_count > 0 is printed exactly once in the view, as a root
\* or beneath a root, whatever parents section_enter recorded (a section
\* entered inside itself, two sections each first seen inside the other).
C33_HierarchyComplete ==
    Reported =>
        \A i \in 0..(g_section_count - 1) :
            g_sections[i].entry_count > 0 => Cardinality(HierarchyLines(i)) = 1

\* C34: the report terminates on every table of parents: the depth-first
\* print of the hierarchy prints no section twice, and a finalizer that has
\* reached the hierarchical view goes on to the section details and returns,
\* also when a section is its own parent or the parents form a cycle
\* (SpecReportFair).
C34_ReportTerminates ==
    /\ [](\A i \in SectionIndices : Cardinality(HierarchyLines(i)) <= 1)
    /\ \A t \in Threads :
          /\ (pc[t] = "fini_hierarchy") ~> (pc[t] = "fini_details")
          /\ (pc[t] = "fini_details") ~> (pc[t] = "idle")

\* C34 witness: the report is complete on a table in which section 0 is its
\* own parent and section 1 is a child of it.
C34_Witness ==
    /\ Reported
    /\ LinesOf("END OF NARWHALYZER REPORT") # {}
    /\ g_section_count = 2
    /\ g_sections[0].parent_index = 0
    /\ g_sections[1].parent_index = 0

\* C35: every row of the flat summary has min_time_ns <= mean <= max_time_ns,
\* also for a section with an activation that is still open when the report
\* is written.
C35_MeanBetweenExtrema ==
    \A p \in LinesOf("row") :
        output[p].min <= output[p].mean /\ output[p].mean <= output[p].max

\* C36: no step of a section_enter or section_exit, however the calls of the
\* threads interleave, lowers entry_count or cumulative_time_ns of a
\* registered section, raises its min_time_ns or lowers its max_time_ns
\* (SpecExit: concurrent exits of one section).
C36_MonotonicStats ==
    [][\A i \in RegisteredIndices :
          /\ g_sections'[i].entry_count >= g_sections[i].entry_count
          /\ g_sections'[i].cumulative_time_ns >= g_sections[i].cumulative_time_ns
          /\ g_sections'[i].min_time_ns <= g_sections[i].min_time_ns
          /\ g_sections'[i].max_time_ns >= g_sections[i].max_time_ns
      ]_vars

\* C36 witness: on a section entered twice whose maximum was raised, an exit
\* is about to fail its compare-and-swap on the minimum, because another exit
\* changed the minimum after this one read it.
C36_Witness ==
    \E t \in Threads :
        /\ pc[t] = "exit_min_cas"
        /\ frame[t].elapsed_ns < frame[t].old
        /\ g_sections[frame[t].section_index].min_time_ns # frame[t].old
        /\ g_sections[frame[t].section_index].max_time_ns > 0
        /\ g_sections[frame[t].section_index].entry_count >= 2

C38_HotPathReturns ==
    \A t \in Threads :
        /\ (pc[t] \in ExitPcs) ~> (pc[t] = "idle")
        /\ (pc[t] \in EnterPcs) ~> (pc[t] = "idle")

\* C38 witness: a thread is in the min loop of section_exit while the other
\* thread holds the registration mutex.
C38_Witness ==
    \E t, u \in Threads :
        /\ pc[t] = "exit_min_cas"
        /\ frame[t].elapsed_ns < frame[t].old
        /\ g_registration_mutex = u
        /\ pc[u] = "reg_lookup"

\* The positions from which a call of __narwhalyzer_fini returns.
FiniReturnPcs == { "fini_cas", "fini_count", "fini_details" }

\* The sections that were entered have a row in the flat summary printed so far.
ExecutedAreReported(printed) ==
    \A i \in 0..(g_section_count - 1) :
        g_sections[i].entry_count > 0 =>
            \E p \in DOMAIN printed : printed[p].kind = "row" /\ printed[p].idx = i

\* C39: the lifecycle moves Uninitialized, Initialized, Reported only: the
\* report-printed flag is never set while the runtime is uninitialized,
\* neither flag is ever unset again, and when a finalizer call returns the
\* sections executed so far are in the report, whatever finalizer calls came
\* before.
C39_Lifecycle ==
    /\ [](g_report_printed = 1 => g_initialized = 1)
    /\ [][ /\ g_initialized = 1 => g_initialized' = 1
           /\ g_report_printed = 1 => g_report_printed' = 1 ]_vars
    /\ [][ \A t \in Threads :
              (pc[t] \in FiniReturnPcs /\ pc'[t] = "idle") => ExecutedAreReported(output') ]_vars

\* What one execution of the block is to do with context id c: one
\* section_enter that returns c, one run of the body, one section_exit(c).
OneEnterBodyExit(c) == << << "enter", c >>, << "body", -1 >>, << "exit", c >> >>

\* C40: one execution of a NARWHALYZER_SECTION block calls section_enter once
\* before the body, runs the body once and calls section_exit once, with the
\* context id section_enter returned, after it, however the body leaves (end,
\* break, continue); register_section is called only while the cached static
\* index is negative.
C40_OneEnterOneExit ==
    /\ [](\E c \in -1..(NARWHALYZER_MAX_NESTING_DEPTH - 1) :
            /\ Len(block.trace) <= 3
            /\ block.trace = SubSeq(OneEnterBodyExit(c), 1, Len(block.trace))
            /\ (block.pos = "out" /\ block.runs > 0) => Len(block.trace) = 3)
    /\ [][ \A t \in Threads :
              (pc[t] = "idle" /\ pc'[t] = "reg_check_init") => block.idx < 0 ]_vars
====
